---- MODULE Spec2Model ----
(***************************************************************************)
(* Model of devflow-cli: the template installer (init.ts), the IDE web     *)
(* folder installer (ide.ts) and the version comparator (ide.ts).          *)
(*                                                                         *)
(* The file system is a partial function from paths to nodes.  A path is   *)
(* a sequence of names relative to the directory an installer works in     *)
(* (the target directory of initializeProject, the package root of         *)
(* setupWebFolder); <<>> is that directory itself.  Text is a sequence of  *)
(* characters.                                                             *)
(***************************************************************************)
EXTENDS Integers, Sequences, FiniteSets, TLC

VARIABLES
    routine,    \* which entry point this behaviour runs
    pc,         \* position in the routine (named after the awaited call)
    fs,         \* the file system below the working directory
    fs0,        \* history: the file system before the routine started
    folder,     \* InitOptions.folder ("" when absent)
    tempPath,   \* tempPath of the routine, <<>> before it is constructed
    tmpl,       \* history: the tree the clone produced
    conflicts,  \* result of checkConflicts
    prompted,   \* question() has been called and has resolved
    answer,     \* the text question() resolved to
    replace,    \* setupWebFolder's replace parameter
    err,        \* the exception in flight ("none" when there is none)
    exitCode,   \* process exit code, -1 while the process has not exited
    out,        \* messages emitted through output.* , oldest first
    fsLog,      \* history: file-system and git calls made, oldest first
    existingContent, \* the merge step's read of the target .gitignore
    devflowContent,  \* the merge step's read of the template .gitignore
    faults,     \* number of I/O failures injected so far
    remote,     \* isNewerVersion's first argument
    local,      \* isNewerVersion's second argument
    verDone,    \* isNewerVersion has returned
    hasUpdate,  \* its result
    skipDeps,   \* checkDependencies' argument (the --skip-deps option)
    machine,    \* the platform and the tools the probes of deps.ts find
    osInfo,     \* checkDependencies' osInfo
    missingCli, \* checkDependencies' missingCli
    missingWeb, \* checkDependencies' missingWeb
    depsResult, \* the report checkDependencies returned
    depsAnswer, \* the text promptContinue's question resolved to
    response,   \* what fetch(REMOTE_PACKAGE_JSON_URL) resolved or rejected with
    error,      \* the value handed to handleInitError / handleIdeError
    now,        \* Date.now(), in milliseconds since the first call started
    parked      \* the locals of a second, overlapping call while the first runs

\* the variables of the commands around the installers
cmdVars == <<skipDeps, machine, osInfo, missingCli, missingWeb, depsResult, depsAnswer,
             response, error>>

\* the variables of two overlapping calls of initializeProject
twoVars == <<now, parked>>

vars == <<twoVars, cmdVars, routine, pc, fs, fs0, folder, tempPath, tmpl, conflicts, prompted, answer,
          replace, err, exitCode, out, fsLog, existingContent, devflowContent,
          faults, remote, local, verDone, hasUpdate>>

(***************************************************************************)
(* Bounds                                                                  *)
(***************************************************************************)
\* I/O failures injected in one run of an installer
MaxFaults == 2
\* characters in a version string
MaxVerLen == 5
\* milliseconds the clock advances while two calls overlap
MaxClock == 1

(***************************************************************************)
(* Version comparator (ide.ts)                                             *)
(***************************************************************************)
VerChars == {"0", "1", "."}

Max(a, b) == IF a >= b THEN a ELSE b

Min(a, b) == IF a <= b THEN a ELSE b

\* every text over cs of length at most n
RECURSIVE TextsUpTo(_, _)
TextsUpTo(cs, n) ==
    IF n = 0 THEN {<<>>}
    ELSE LET shorter == TextsUpTo(cs, n - 1)
         IN  shorter \cup {Append(s, c) : s \in shorter, c \in cs}

\* a dotted-numeric string: non-empty runs of digits separated by single dots
IsDottedNumeric(s) ==
    /\ Len(s) > 0
    /\ s[1] # "."
    /\ s[Len(s)] # "."
    /\ \A i \in 1..(Len(s) - 1) : ~(s[i] = "." /\ s[i + 1] = ".")

VersionStrings == {s \in TextsUpTo(VerChars, MaxVerLen) : IsDottedNumeric(s)}

\* String.prototype.split("."): the pieces between the dots, in order
RECURSIVE SplitDot(_)
SplitDot(s) ==
    IF \A i \in 1..Len(s) : s[i] # "." THEN <<s>>
    ELSE LET k == CHOOSE i \in 1..Len(s) :
                      s[i] = "." /\ \A j \in 1..(i - 1) : s[j] # "."
         IN  <<SubSeq(s, 1, k - 1)>> \o SplitDot(SubSeq(s, k + 1, Len(s)))

DigitValue(c) == IF c = "1" THEN 1 ELSE 0

\* Number(piece) for a run of decimal digits; Number("") is 0
RECURSIVE ToNumber(_)
ToNumber(ds) ==
    IF ds = <<>> THEN 0
    ELSE 10 * ToNumber(SubSeq(ds, 1, Len(ds) - 1)) + DigitValue(ds[Len(ds)])

\* version.split(".").map(Number)
VersionParts(v) ==
    LET pieces == SplitDot(v)
    IN  [i \in 1..Len(pieces) |-> ToNumber(pieces[i])]

\* parts[i] ?? 0 (i counted from 1)
PartOrZero(parts, i) == IF i <= Len(parts) THEN parts[i] ELSE 0

\* the for loop of isNewerVersion from index i on, over limit components
RECURSIVE CompareFrom(_, _, _, _)
CompareFrom(remoteParts, localParts, i, limit) ==
    IF i > limit THEN FALSE
    ELSE LET remotePart == PartOrZero(remoteParts, i)
             localPart  == PartOrZero(localParts, i)
         IN  IF remotePart > localPart THEN TRUE
             ELSE IF remotePart < localPart THEN FALSE
             ELSE CompareFrom(remoteParts, localParts, i + 1, limit)

\* mutant: equal versions count as newer (>= instead of >)
RECURSIVE CompareFromGe(_, _, _)
CompareFromGe(remoteParts, localParts, i) ==
    IF i > Max(Len(remoteParts), Len(localParts)) THEN TRUE
    ELSE LET remotePart == PartOrZero(remoteParts, i)
             localPart  == PartOrZero(localParts, i)
         IN  IF remotePart > localPart THEN TRUE
             ELSE IF remotePart < localPart THEN FALSE
             ELSE CompareFromGe(remoteParts, localParts, i + 1)

isNewerVersionGe(r, l) == CompareFromGe(VersionParts(r), VersionParts(l), 1)

\* mutant: the loop stops at the shorter of the two part lists
isNewerVersionShort(r, l) ==
    LET remoteParts == VersionParts(r)
        localParts  == VersionParts(l)
    IN  CompareFrom(remoteParts, localParts, 1,
                    Min(Len(remoteParts), Len(localParts)))

isNewerVersion(r, l) ==
    LET remoteParts == VersionParts(r)
        localParts  == VersionParts(l)
    IN  CompareFrom(remoteParts, localParts, 1,
                    Max(Len(remoteParts), Len(localParts)))

(***************************************************************************)
(* File system (node:fs/promises as the installers use it)                 *)
(***************************************************************************)
DirNode == [kind |-> "dir"]

FileNode(data) == [kind |-> "file", data |-> data]

EmptyFs == [p \in {} |-> DirNode]

Exists(f, p) == p \in DOMAIN f

IsDir(f, p) == p \in DOMAIN f /\ f[p].kind = "dir"

IsFile(f, p) == p \in DOMAIN f /\ f[p].kind = "file"

IsPrefix(p, q) == Len(p) <= Len(q) /\ SubSeq(q, 1, Len(p)) = p

Prefixes(p) == {SubSeq(p, 1, k) : k \in 0..Len(p)}

Parent(p) == SubSeq(p, 1, Len(p) - 1)

\* join(base, ...names)
Join(base, names) == base \o names

\* names of the entries of directory p (readdir)
Children(f, p) == {q[Len(q)] : q \in {x \in DOMAIN f : Len(x) = Len(p) + 1 /\ IsPrefix(p, x)}}

\* mkdir(p, {recursive: true}) succeeds unless a component of p is a file
MkdirOk(f, p) == \A q \in Prefixes(p) : q \in DOMAIN f => f[q].kind = "dir"

Mkdirp(f, p) ==
    [q \in DOMAIN f \cup Prefixes(p) |-> IF q \in DOMAIN f THEN f[q] ELSE DirNode]

\* rm(p, {recursive: true, force: true}): p and everything below it
RmRf(f, p) == [q \in {x \in DOMAIN f : ~IsPrefix(p, x)} |-> f[q]]

\* cp(src, dst) of a single file: the parent of dst is created when missing,
\* an existing file at dst is overwritten
CpOk(f, src, dst) ==
    /\ IsFile(f, src)
    /\ ~IsDir(f, dst)
    /\ MkdirOk(f, Parent(dst))

\* mutant: an existing file at dst is kept
CpKeeping(f, src, dst) ==
    LET g == Mkdirp(f, Parent(dst))
    IN  [q \in DOMAIN g \cup {dst} |->
            IF q \in DOMAIN f THEN f[q]
            ELSE IF q = dst THEN FileNode(f[src].data) ELSE g[q]]

Cp(f, src, dst) ==
    LET g == Mkdirp(f, Parent(dst))
    IN  [q \in DOMAIN g \cup {dst} |-> IF q = dst THEN FileNode(f[src].data) ELSE g[q]]

\* writeFile(p, data): the parent must be a directory and p no directory
WriteOk(f, p) == IsDir(f, Parent(p)) /\ ~IsDir(f, p)

WriteFile(f, p, data) ==
    [q \in DOMAIN f \cup {p} |-> IF q = p THEN FileNode(data) ELSE f[q]]

\* readFile(p, "utf-8")
ReadOk(f, p) == IsFile(f, p)

ReadFile(f, p) == f[p].data

\* the subtree t (paths relative to its root) placed at path at of f
Graft(f, at, t) ==
    LET placed == {Join(at, q) : q \in DOMAIN t}
    IN  [p \in DOMAIN f \cup placed |->
            IF p \in placed THEN t[SubSeq(p, Len(at) + 1, Len(p))] ELSE f[p]]

(***************************************************************************)
(* copyDirectory (init.ts and ide.ts hold the same function).              *)
(* budget is the number of file-system calls that succeed before an        *)
(* injected failure; the result is the file system reached, whether the    *)
(* call resolved, and the budget left.  Entries are taken in a fixed       *)
(* order.                                                                  *)
(***************************************************************************)
\* the call with budget left rejected: a call that fails by itself has been
\* made (it costs one), an injected failure is the call the budget ran out at
CopyFailed(f, budget) ==
    [fs |-> f, ok |-> FALSE, budget |-> IF budget = 0 THEN 0 ELSE budget - 1]

RECURSIVE copyDirectory(_, _, _, _)
RECURSIVE copyEntries(_, _, _, _, _)
copyDirectory(f, source, target, budget) ==
    IF budget = 0 \/ ~IsDir(f, source)
    THEN CopyFailed(f, budget)                          \* readdir rejects
    ELSE copyEntries(f, source, target, Children(f, source), budget - 1)

copyEntries(f, source, target, entries, budget) ==
    IF entries = {} THEN [fs |-> f, ok |-> TRUE, budget |-> budget]
    ELSE LET name       == CHOOSE e \in entries : TRUE
             sourcePath == Append(source, name)
             targetPath == Append(target, name)
         IN  IF IsDir(f, sourcePath)
             THEN IF budget = 0 \/ ~MkdirOk(f, targetPath)
                  THEN CopyFailed(f, budget)
                  ELSE LET r == copyDirectory(Mkdirp(f, targetPath),
                                              sourcePath, targetPath, budget - 1)
                       IN  IF r.ok
                           THEN copyEntries(r.fs, source, target,
                                            entries \ {name}, r.budget)
                           ELSE r
             ELSE IF budget = 0 \/ ~CpOk(f, sourcePath, targetPath)
                  THEN CopyFailed(f, budget)
                  ELSE copyEntries(Cp(f, sourcePath, targetPath), source, target,
                                   entries \ {name}, budget - 1)

\* a budget no copy of the model's trees exhausts: the call runs unhindered
Unhindered == 64

\* the calls of copyDirectory(source, target) that succeed when no failure
\* is injected
CopyCalls(f, source, target) ==
    LET r == copyDirectory(f, source, target, Unhindered)
    IN  IF r.ok THEN Unhindered - r.budget ELSE Unhindered - r.budget - 1

(***************************************************************************)
(* Paths, trees and inputs of the installers                               *)
(***************************************************************************)
AgentsPath == <<".claude", "commands", "agents">>

DevflowPath == <<".devflow">>

DocsPath == <<"docs">>

GitignorePath == <<".gitignore">>

WebPath == <<"web">>

\* `.devflow-temp-${Date.now()}` for the values Date.now() takes in the model
TempNames == <<".devflow-temp-0", ".devflow-temp-1", ".devflow-temp-2", ".devflow-temp-3",
               ".devflow-temp-4", ".devflow-temp-5", ".devflow-temp-6", ".devflow-temp-7">>

tempFolderName(t) == TempNames[t + 1]

\* `.devflow-temp-${Date.now()}` and `.devflow-ide-temp-${Date.now()}` of a
\* routine that runs alone
InitTempPath == <<".devflow-temp-0">>

WebTempPath == <<".devflow-ide-temp-0">>

\* a directory that exists and is empty
RootOnly == [p \in {<<>>} |-> DirNode]

PutFile(f, p, data) == WriteFile(Mkdirp(f, Parent(p)), p, data)

\* content of the template's .gitignore
TemplateIgnore == <<"t">>

\* the shapes a clone of the template repository can have
TemplateShapes ==
    {[agents |-> TRUE,  devflow |-> "yaml",   docs |-> TRUE,  gitignore |-> TRUE],
     [agents |-> FALSE, devflow |-> "yaml",   docs |-> TRUE,  gitignore |-> TRUE],
     [agents |-> TRUE,  devflow |-> "absent", docs |-> TRUE,  gitignore |-> TRUE],
     [agents |-> TRUE,  devflow |-> "bare",   docs |-> TRUE,  gitignore |-> TRUE],
     [agents |-> TRUE,  devflow |-> "yaml",   docs |-> FALSE, gitignore |-> TRUE],
     [agents |-> TRUE,  devflow |-> "yaml",   docs |-> TRUE,  gitignore |-> FALSE],
     [agents |-> FALSE, devflow |-> "absent", docs |-> FALSE, gitignore |-> FALSE]}

TemplateTree(shape) ==
    LET a == IF shape.agents
             THEN PutFile(RootOnly, Append(AgentsPath, "architect.md"), <<"a">>)
             ELSE RootOnly
        d == IF shape.devflow = "absent" THEN a
             ELSE IF shape.devflow = "bare" THEN Mkdirp(a, DevflowPath)
             ELSE PutFile(a, Append(DevflowPath, "project.yaml"), <<"p">>)
        o == IF shape.docs
             THEN PutFile(PutFile(d, Append(DocsPath, "guide.md"), <<"g">>),
                          Join(DocsPath, <<"snapshots", ".gitkeep">>), <<>>)
             ELSE d
    IN  IF shape.gitignore THEN PutFile(o, GitignorePath, TemplateIgnore) ELSE o

Templates == {TemplateTree(shape) : shape \in TemplateShapes}

\* contents a target's own .gitignore can have
ExistingIgnores == {<<>>, <<"e">>}

\* what the target directory holds before initializeProject runs
TargetShapes ==
    [agents : BOOLEAN, devflow : BOOLEAN, docs : BOOLEAN,
     gitignore : {{}} \cup {{c} : c \in ExistingIgnores}]

TargetTree(shape) ==
    LET a == IF shape.agents
             THEN PutFile(RootOnly, Append(AgentsPath, "old.md"), <<"o">>)
             ELSE RootOnly
        d == IF shape.devflow
             THEN PutFile(a, Append(DevflowPath, "project.yaml"), <<"m">>)
             ELSE a
        o == IF shape.docs
             THEN PutFile(d, Append(DocsPath, "notes.md"), <<"k">>)
             ELSE d
    IN  IF shape.gitignore = {} THEN o
        ELSE PutFile(o, GitignorePath, CHOOSE c \in shape.gitignore : TRUE)

Targets == {TargetTree(shape) : shape \in TargetShapes}

\* the folder arguments of `devflow init [folder]`; "" is no argument
Folders == {"", "my-app"}

\* texts the user can type at the conflict prompt
Answers == {<<>>, <<"n">>, <<"N", "o">>, <<"y">>, <<"Y", "e", "s">>, <<"m">>}

\* String.prototype.toLowerCase on the characters of Answers
LowerChar(c) == IF c = "N" THEN "n" ELSE IF c = "Y" THEN "y" ELSE c

toLowerCase(s) == [i \in 1..Len(s) |-> LowerChar(s[i])]

startsWith(s, prefix) ==
    Len(s) >= Len(prefix) /\ SubSeq(s, 1, Len(prefix)) = prefix

\* the web subtree of a clone: the manifest and one nested source file
WebTemplates ==
    {PutFile(PutFile(RootOnly, Join(WebPath, <<"package.json">>), <<"2">>),
             Join(WebPath, <<"src", "app.tsx">>), <<"x">>),
     RootOnly}

\* the package root before setupWebFolder runs: without or with a web folder
PackageRoots ==
    {RootOnly,
     PutFile(PutFile(RootOnly, Join(WebPath, <<"package.json">>), <<"1">>),
             Join(WebPath, <<"node_modules", "m.js">>), <<"n">>)}

(***************************************************************************)
(* Messages and call records                                               *)
(***************************************************************************)
Msg(level, text) == [level |-> level, text |-> text, arg |-> ""]

MsgIn(level, text, arg) == [level |-> level, text |-> text, arg |-> arg]

Call(op, path) == [op |-> op, path |-> path]

\* a call as the log keeps it: with whether it succeeded
Logged(call, ok) == [op |-> call.op, path |-> call.path, ok |-> ok]

\* whether the next I/O call may be made to fail
Inject == IF faults < MaxFaults THEN BOOLEAN ELSE {FALSE}

(***************************************************************************)
(* Entry points and their callees                                          *)
(***************************************************************************)
\* routines that run initializeProject: the function itself, the init command
InitCallers == {"initializeProject", "initCommand"}

\* routines that run setupWebFolder
WebCallers == {"setupWebFolder", "startIde", "updateIde"}

\* where setupWebFolder returns to
AfterSetup ==
    IF routine = "startIde" THEN "nodeModulesAccess"
    ELSE IF routine = "updateIde" THEN "updateReport"
    ELSE "returned"

(***************************************************************************)
(* Steps shared by the actions                                             *)
(***************************************************************************)
\* variables no file-system call of an installer changes
callFrame == <<twoVars, cmdVars, routine, fs0, folder, tempPath, tmpl, conflicts, prompted, answer, replace,
               exitCode, existingContent, devflowContent, remote, local, verDone, hasUpdate>>

\* One awaited file-system call at position at.  It succeeds when ok holds
\* and no failure is injected: the file system becomes okFs, control moves to
\* okPc and okOut is emitted.  Otherwise the file system is left as it is
\* and control moves to the enclosing catch: failPc, emitting failOut, with
\* failErr in flight when the catch is the routine's finally block.
FsCall(at, call, ok, okFs, okPc, okOut, failPc, failOut, failErr) ==
    /\ pc = at
    /\ \E inject \in Inject :
          LET success == ok /\ ~inject
          IN  /\ fs' = IF success THEN okFs ELSE fs
              /\ pc' = IF success THEN okPc ELSE failPc
              /\ out' = out \o (IF success THEN okOut ELSE failOut)
              /\ err' = IF success THEN err ELSE failErr
              /\ faults' = faults + (IF inject THEN 1 ELSE 0)
              /\ fsLog' = Append(fsLog, Logged(call, success))
    /\ UNCHANGED callFrame

\* access(path) at position at: control moves to okPc when path exists and
\* to failPc, emitting failOut, when it does not
Access(at, path, okPc, okOut, failPc, failOut) ==
    /\ pc = at
    /\ pc' = IF Exists(fs, path) THEN okPc ELSE failPc
    /\ out' = out \o (IF Exists(fs, path) THEN okOut ELSE failOut)
    /\ fsLog' = Append(fsLog, Logged(Call("access", path), Exists(fs, path)))
    /\ UNCHANGED <<fs, err, faults>>
    /\ UNCHANGED callFrame

\* the budgets a copyDirectory(source, target) call can run with: unhindered,
\* or failing after any number of its calls
CopyBudgets(source, target) ==
    {Unhindered} \cup
    (IF faults < MaxFaults THEN 0..(CopyCalls(fs, source, target) - 1) ELSE {})

\* await copyDirectory(source, target) at position at; a failure leaves what
\* was copied before it
CopyCall(at, source, target, okPc, okOut, failPc, failOut, failErr) ==
    /\ pc = at
    /\ \E budget \in CopyBudgets(source, target) :
          LET r == copyDirectory(fs, source, target, budget)
          IN  /\ fs' = r.fs
              /\ pc' = IF r.ok THEN okPc ELSE failPc
              /\ out' = out \o (IF r.ok THEN okOut ELSE failOut)
              /\ err' = IF r.ok THEN err ELSE failErr
              /\ faults' = faults + (IF budget = Unhindered THEN 0 ELSE 1)
              /\ fsLog' = Append(fsLog, Logged(Call("copyDirectory", target), r.ok))
    /\ UNCHANGED callFrame

(***************************************************************************)
(* checkConflicts (init.ts)                                                *)
(***************************************************************************)
\* mutant: docs is not checked
foldersToCheckNoDocs == <<AgentsPath, DevflowPath>>

foldersToCheck == <<AgentsPath, DevflowPath, DocsPath>>

RECURSIVE ConflictsFrom(_, _, _, _)
ConflictsFrom(f, targetPath, folders, i) ==
    IF i > Len(folders) THEN <<>>
    ELSE (IF Exists(f, Join(targetPath, folders[i])) THEN <<folders[i]>> ELSE <<>>)
         \o ConflictsFrom(f, targetPath, folders, i + 1)

checkConflicts(f, targetPath) == ConflictsFrom(f, targetPath, foldersToCheck, 1)

(***************************************************************************)
(* initializeProject (init.ts)                                             *)
(***************************************************************************)
\* await mkdir(targetPath, {recursive: true}); then tempPath is constructed
MkdirTarget ==
    /\ routine \in InitCallers
    /\ pc = "mkdirTarget"
    /\ \E inject \in Inject :
          IF MkdirOk(fs, <<>>) /\ ~inject
          THEN /\ fs' = Mkdirp(fs, <<>>)
               /\ tempPath' = <<tempFolderName(now)>>
               /\ pc' = "clone"
               /\ fsLog' = Append(fsLog, Logged(Call("mkdir", <<>>), TRUE))
               /\ UNCHANGED <<err, faults>>
          ELSE /\ pc' = "threw"
               /\ err' = "mkdir"
               /\ faults' = faults + (IF inject THEN 1 ELSE 0)
               /\ fsLog' = Append(fsLog, Logged(Call("mkdir", <<>>), FALSE))
               /\ UNCHANGED <<fs, tempPath>>
    /\ UNCHANGED <<twoVars, cmdVars, routine, fs0, folder, tmpl, conflicts, prompted, answer, replace, out,
                   exitCode, existingContent, devflowContent, remote, local, verDone, hasUpdate>>

\* mutant: a failed clone is not thrown, the steps after it run
CloneSwallowing ==
    /\ routine \in InitCallers
    /\ pc = "clone"
    /\ \/ \E t \in Templates :
             /\ fs' = Graft(fs, tempPath, t)
             /\ tmpl' = t
             /\ out' = Append(out, Msg("success", "Cloned template repository"))
             /\ fsLog' = Append(fsLog, Logged(Call("clone", tempPath), TRUE))
       \/ \E leftover \in BOOLEAN :
             /\ fs' = IF leftover THEN Mkdirp(fs, tempPath) ELSE fs
             /\ fsLog' = Append(fsLog, Logged(Call("clone", tempPath), FALSE))
             /\ UNCHANGED <<tmpl, out>>
    /\ pc' = "checkConflicts"
    /\ UNCHANGED <<twoVars, cmdVars, routine, fs0, folder, tempPath, conflicts, prompted, answer, replace,
                   err, exitCode, existingContent, devflowContent, faults,
                   remote, local, verDone, hasUpdate>>

\* git clone refuses a destination that exists and is not an empty directory
CloneDestinationFree(f, p) == ~Exists(f, p) \/ (IsDir(f, p) /\ Children(f, p) = {})

\* await execAsync(`git clone ...`): the clone produces one of the template
\* trees, or fails (git missing, network, destination in use) leaving
\* nothing or an empty folder
Clone ==
    /\ routine \in InitCallers
    /\ pc = "clone"
    /\ \/ \E t \in Templates :
             /\ CloneDestinationFree(fs, tempPath)
             /\ fs' = Graft(fs, tempPath, t)
             /\ tmpl' = t
             /\ out' = Append(out, Msg("success", "Cloned template repository"))
             /\ pc' = "checkConflicts"
             /\ err' = err
             /\ fsLog' = Append(fsLog, Logged(Call("clone", tempPath), TRUE))
       \/ \E leftover \in BOOLEAN :
             /\ fs' = IF leftover /\ MkdirOk(fs, tempPath) THEN Mkdirp(fs, tempPath) ELSE fs
             /\ err' = "clone"
             /\ pc' = "cleanup"
             /\ fsLog' = Append(fsLog, Logged(Call("clone", tempPath), FALSE))
             /\ UNCHANGED <<tmpl, out>>
    /\ UNCHANGED <<twoVars, cmdVars, routine, fs0, folder, tempPath, conflicts, prompted, answer, replace,
                   exitCode, existingContent, devflowContent, faults,
                   remote, local, verDone, hasUpdate>>

\* const conflicts = await checkConflicts(targetPath), and the listing of
\* the conflicts when there are any
CheckConflicts ==
    /\ routine \in InitCallers
    /\ pc = "checkConflicts"
    /\ conflicts' = checkConflicts(fs, <<>>)
    /\ IF Len(conflicts') > 0
       THEN /\ out' = Append(out, Msg("warn",
                 "The following DevFlow files/folders already exist in the target directory:"))
            /\ pc' = "question"
       ELSE /\ out' = out
            /\ pc' = "agentsAccess"
    /\ fsLog' = fsLog \o [i \in 1..Len(foldersToCheck) |->
                              Logged(Call("access", foldersToCheck[i]),
                                     Exists(fs, foldersToCheck[i]))]
    /\ UNCHANGED <<twoVars, cmdVars, routine, fs, fs0, folder, tempPath, tmpl, prompted, answer,
                   replace, err, exitCode, existingContent, devflowContent, faults,
                   remote, local, verDone, hasUpdate>>

\* mutant: every answer continues
ContinuesAlways(a) == TRUE

\* mutant: only an answer starting with "n" cancels
ContinuesUnlessNo(a) == ~startsWith(toLowerCase(a), <<"n">>)

\* whether the answer lets the installation go on
Continues(a) == startsWith(toLowerCase(a), <<"y">>)

\* const answer = await question(...); process.exit(0) unless it starts with y
Question ==
    /\ routine \in InitCallers
    /\ pc = "question"
    /\ prompted' = TRUE
    /\ \E a \in Answers :
          /\ answer' = a
          /\ IF ~Continues(a)
             THEN /\ out' = Append(out, Msg("error", "Initialization cancelled."))
                  /\ exitCode' = 0
                  /\ pc' = "exited"
             ELSE /\ pc' = "agentsAccess"
                  /\ UNCHANGED <<out, exitCode>>
    /\ UNCHANGED <<twoVars, cmdVars, routine, fs, fs0, folder, tempPath, tmpl, conflicts, replace, err,
                   fsLog, existingContent, devflowContent, faults,
                   remote, local, verDone, hasUpdate>>

(***************************************************************************)
(* copyDevFlowFiles (init.ts): the agents, .devflow and docs sub-steps     *)
(***************************************************************************)
agentsSource == Join(tempPath, AgentsPath)

agentsTarget == AgentsPath

AgentsWarn == <<Msg("warn", "Could not copy .claude/commands/agents")>>

AgentsAccess ==
    /\ routine \in InitCallers
    /\ Access("agentsAccess", agentsSource, "agentsMkdirParent", <<>>,
              "devflowAccess", AgentsWarn)

AgentsMkdirParent ==
    /\ routine \in InitCallers
    /\ FsCall("agentsMkdirParent", Call("mkdir", Parent(agentsTarget)),
              MkdirOk(fs, Parent(agentsTarget)), Mkdirp(fs, Parent(agentsTarget)),
              "agentsRm", <<>>, "devflowAccess", AgentsWarn, err)

\* rm(agentsTarget) sits in its own try/catch: a failure is ignored
AgentsRm ==
    /\ routine \in InitCallers
    /\ FsCall("agentsRm", Call("rm", agentsTarget), TRUE, RmRf(fs, agentsTarget),
              "agentsMkdir", <<>>, "agentsMkdir", <<>>, err)

AgentsMkdir ==
    /\ routine \in InitCallers
    /\ FsCall("agentsMkdir", Call("mkdir", agentsTarget),
              MkdirOk(fs, agentsTarget), Mkdirp(fs, agentsTarget),
              "agentsCopy", <<>>, "devflowAccess", AgentsWarn, err)

\* mutant: a failed copy of the agents is thrown to initializeProject
AgentsCopyThrowing ==
    /\ routine \in InitCallers
    /\ CopyCall("agentsCopy", agentsSource, agentsTarget,
                "devflowAccess",
                <<Msg("success", "Agents installed (.claude/commands/agents/)")>>,
                "cleanup", <<>>, "copyDirectory")

AgentsCopy ==
    /\ routine \in InitCallers
    /\ CopyCall("agentsCopy", agentsSource, agentsTarget,
                "devflowAccess",
                <<Msg("success", "Agents installed (.claude/commands/agents/)")>>,
                "devflowAccess", AgentsWarn, err)

devflowSource == Join(tempPath, DevflowPath)

devflowTarget == DevflowPath

projectYamlSource == Append(devflowSource, "project.yaml")

projectYamlTarget == Append(devflowTarget, "project.yaml")

DevflowWarn == <<Msg("warn", "Could not copy .devflow structure")>>

DevflowDone == <<Msg("success", "DevFlow structure created (.devflow/)")>>

DevflowAccess ==
    /\ routine \in InitCallers
    /\ Access("devflowAccess", devflowSource, "devflowMkdirAgents", <<>>,
              "docsAccess", DevflowWarn)

\* mkdir of one of the three folders of the .devflow structure
DevflowMkdir(at, name, next) ==
    FsCall(at, Call("mkdir", Append(devflowTarget, name)),
           MkdirOk(fs, Append(devflowTarget, name)),
           Mkdirp(fs, Append(devflowTarget, name)),
           next, <<>>, "docsAccess", DevflowWarn, err)

DevflowMkdirAgents ==
    /\ routine \in InitCallers
    /\ DevflowMkdir("devflowMkdirAgents", "agents", "devflowMkdirMemory")

DevflowMkdirMemory ==
    /\ routine \in InitCallers
    /\ DevflowMkdir("devflowMkdirMemory", "memory", "devflowMkdirSessions")

DevflowMkdirSessions ==
    /\ routine \in InitCallers
    /\ DevflowMkdir("devflowMkdirSessions", "sessions", "yamlAccess")

YamlAccess ==
    /\ routine \in InitCallers
    /\ Access("yamlAccess", projectYamlSource, "yamlCp", <<>>, "yamlWrite", <<>>)

\* cp(projectYamlSource, projectYamlTarget); a failure falls to the inner
\* catch, which writes the empty file
YamlCp ==
    /\ routine \in InitCallers
    /\ FsCall("yamlCp", Call("cp", projectYamlTarget),
              CpOk(fs, projectYamlSource, projectYamlTarget),
              Cp(fs, projectYamlSource, projectYamlTarget),
              "docsAccess", DevflowDone, "yamlWrite", <<>>, err)

\* writeFile(projectYamlTarget, ""), in the inner catch
YamlWrite ==
    /\ routine \in InitCallers
    /\ FsCall("yamlWrite", Call("writeFile", projectYamlTarget),
              WriteOk(fs, projectYamlTarget), WriteFile(fs, projectYamlTarget, <<>>),
              "docsAccess", DevflowDone, "docsAccess", DevflowWarn, err)

docsSource == Join(tempPath, DocsPath)

docsTarget == DocsPath

DocsWarn == <<Msg("warn", "Could not copy docs/ folder")>>

\* mutant: the existence of docs is ignored, an existing docs folder is replaced
DocsAccessReplacing ==
    /\ routine \in InitCallers
    /\ Access("docsAccess", docsTarget, "docsSourceAccess", <<>>,
              "docsSourceAccess", <<>>)

\* access(docsTarget): an existing docs folder is kept
DocsAccess ==
    /\ routine \in InitCallers
    /\ Access("docsAccess", docsTarget, "snapshotsMkdir",
              <<Msg("warn", "docs/ folder already exists - keeping existing")>>,
              "docsSourceAccess", <<>>)

DocsSourceAccess ==
    /\ routine \in InitCallers
    /\ Access("docsSourceAccess", docsSource, "docsRm", <<>>,
              "snapshotsMkdir", DocsWarn)

\* rm(docsTarget) sits in its own try/catch: a failure is ignored
DocsRm ==
    /\ routine \in InitCallers
    /\ FsCall("docsRm", Call("rm", docsTarget), TRUE, RmRf(fs, docsTarget),
              "docsMkdir", <<>>, "docsMkdir", <<>>, err)

DocsMkdir ==
    /\ routine \in InitCallers
    /\ FsCall("docsMkdir", Call("mkdir", docsTarget),
              MkdirOk(fs, docsTarget), Mkdirp(fs, docsTarget),
              "docsCopy", <<>>, "snapshotsMkdir", DocsWarn, err)

DocsCopy ==
    /\ routine \in InitCallers
    /\ CopyCall("docsCopy", docsSource, docsTarget,
                "snapshotsMkdir",
                <<Msg("success", "Documentation structure created (docs/)")>>,
                "snapshotsMkdir", DocsWarn, err)

\* mkdir(docs/snapshots) is outside every try of copyDevFlowFiles: a failure
\* is thrown to initializeProject, whose finally block runs next
SnapshotsMkdir ==
    /\ routine \in InitCallers
    /\ FsCall("snapshotsMkdir", Call("mkdir", Append(docsTarget, "snapshots")),
              MkdirOk(fs, Append(docsTarget, "snapshots")),
              Mkdirp(fs, Append(docsTarget, "snapshots")),
              "gitignoreAccess", <<>>, "cleanup", <<>>, "mkdir")

(***************************************************************************)
(* initializeProject: the .gitignore merge, the finally block, the report  *)
(***************************************************************************)
gitignoreSource == Join(tempPath, GitignorePath)

gitignoreTarget == GitignorePath

\* mutant: the template's entries come first
MergedIgnoreReversed(existing, devflow) == devflow \o <<"\n">> \o existing

\* `${existingContent}\n${devflowContent}`
MergedIgnore(existing, devflow) == existing \o <<"\n">> \o devflow

\* access(gitignoreSource): a template without .gitignore skips the step
GitignoreAccess ==
    /\ routine \in InitCallers
    /\ Access("gitignoreAccess", gitignoreSource, "gitignoreTargetAccess", <<>>,
              "cleanup", <<>>)

\* access(gitignoreTarget): merge when it exists, copy when it does not
GitignoreTargetAccess ==
    /\ routine \in InitCallers
    /\ Access("gitignoreTargetAccess", gitignoreTarget, "gitignoreReadExisting", <<>>,
              "gitignoreCp", <<>>)

\* one readFile of the merge; a failure falls to the catch that copies
GitignoreRead(at, path, next) ==
    /\ pc = at
    /\ \E inject \in Inject :
          IF ReadOk(fs, path) /\ ~inject
          THEN /\ pc' = next
               /\ existingContent' = IF path = gitignoreTarget
                                     THEN ReadFile(fs, path) ELSE existingContent
               /\ devflowContent' = IF path = gitignoreSource
                                    THEN ReadFile(fs, path) ELSE devflowContent
               /\ faults' = faults
               /\ fsLog' = Append(fsLog, Logged(Call("readFile", path), TRUE))
          ELSE /\ pc' = "gitignoreCp"
               /\ faults' = faults + (IF inject THEN 1 ELSE 0)
               /\ fsLog' = Append(fsLog, Logged(Call("readFile", path), FALSE))
               /\ UNCHANGED <<existingContent, devflowContent>>
    /\ UNCHANGED <<twoVars, cmdVars, routine, fs, fs0, folder, tempPath, tmpl, conflicts, prompted, answer,
                   replace, err, exitCode, out, remote, local, verDone, hasUpdate>>

GitignoreReadExisting ==
    /\ routine \in InitCallers
    /\ GitignoreRead("gitignoreReadExisting", gitignoreTarget, "gitignoreReadDevflow")

GitignoreReadDevflow ==
    /\ routine \in InitCallers
    /\ GitignoreRead("gitignoreReadDevflow", gitignoreSource, "gitignoreWrite")

\* writeFile(gitignoreTarget, merged)
GitignoreWrite ==
    /\ routine \in InitCallers
    /\ FsCall("gitignoreWrite", Call("writeFile", gitignoreTarget),
              WriteOk(fs, gitignoreTarget),
              WriteFile(fs, gitignoreTarget, MergedIgnore(existingContent, devflowContent)),
              "cleanup", <<Msg("success", ".gitignore updated (merged with DevFlow entries)")>>,
              "gitignoreCp", <<>>, err)

\* cp(gitignoreSource, gitignoreTarget), in the catch of the merge; its own
\* failure is caught by the outer catch and skipped
GitignoreCp ==
    /\ routine \in InitCallers
    /\ FsCall("gitignoreCp", Call("cp", gitignoreTarget),
              CpOk(fs, gitignoreSource, gitignoreTarget),
              Cp(fs, gitignoreSource, gitignoreTarget),
              "cleanup", <<Msg("success", ".gitignore created")>>,
              "cleanup", <<>>, err)

CleanedUp == <<Msg("success", "Temporary files cleaned up")>>

\* mutant: the removal is skipped when an exception is in flight
CleanupOnSuccessOnly ==
    /\ routine \in InitCallers
    /\ IF err = "none"
       THEN FsCall("cleanup", Call("rm", tempPath), TRUE, RmRf(fs, tempPath),
                   "report", CleanedUp, "report", CleanedUp, err)
       ELSE /\ pc = "cleanup"
            /\ pc' = "threw"
            /\ UNCHANGED <<fs, out, err, faults, fsLog>>
            /\ UNCHANGED callFrame

\* mutant: a failed removal of the temp workspace is thrown to the caller
CleanupThrowing ==
    /\ routine \in InitCallers
    /\ FsCall("cleanup", Call("rm", tempPath), TRUE, RmRf(fs, tempPath),
              IF err = "none" THEN "report" ELSE "threw", CleanedUp,
              "threw", <<>>, "rm")

\* the finally block: rm(tempPath) with its failure ignored, then the
\* exception in flight, if any, goes on to the caller
Cleanup ==
    /\ routine \in InitCallers
    /\ FsCall("cleanup", Call("rm", tempPath), TRUE, RmRf(fs, tempPath),
              IF err = "none" THEN "report" ELSE "threw", CleanedUp,
              IF err = "none" THEN "report" ELSE "threw", CleanedUp, err)

\* mutant: the final message never names the folder
ReportWithoutFolder ==
    /\ routine \in InitCallers
    /\ pc = "report"
    /\ out' = Append(out, Msg("success", "DevFlow initialized"))
    /\ pc' = "returned"
    /\ UNCHANGED <<twoVars, cmdVars, routine, fs, fs0, folder, tempPath, tmpl, conflicts, prompted,
                   answer, replace, err, exitCode, fsLog, existingContent,
                   devflowContent, faults, remote, local, verDone, hasUpdate>>

\* output.success(`DevFlow initialized${folder ? ` in ${folder}` : ""}`)
Report ==
    /\ routine \in InitCallers
    /\ pc = "report"
    /\ out' = Append(out, MsgIn("success", "DevFlow initialized", folder))
    /\ pc' = "returned"
    /\ UNCHANGED <<twoVars, cmdVars, routine, fs, fs0, folder, tempPath, tmpl, conflicts, prompted, answer,
                   replace, err, exitCode, fsLog, existingContent, devflowContent,
                   faults, remote, local, verDone, hasUpdate>>

(***************************************************************************)
(* setupWebFolder (ide.ts)                                                 *)
(***************************************************************************)
webTargetPath == WebPath

webSourcePath == Join(tempPath, WebPath)

\* mutant: a failed clone is not thrown, the steps after it run
WebCloneSwallowing ==
    /\ routine \in WebCallers
    /\ pc = "webClone"
    /\ \/ \E t \in WebTemplates :
             /\ fs' = Graft(fs, tempPath, t)
             /\ tmpl' = t
             /\ out' = Append(out, Msg("success", "Repository cloned"))
             /\ fsLog' = Append(fsLog, Logged(Call("clone", tempPath), TRUE))
       \/ \E leftover \in BOOLEAN :
             /\ fs' = IF leftover THEN Mkdirp(fs, tempPath) ELSE fs
             /\ fsLog' = Append(fsLog, Logged(Call("clone", tempPath), FALSE))
             /\ UNCHANGED <<tmpl, out>>
    /\ pc' = IF replace THEN "webRm" ELSE "webMkdir"
    /\ UNCHANGED <<twoVars, cmdVars, routine, fs0, folder, tempPath, conflicts, prompted, answer, replace,
                   err, exitCode, existingContent, devflowContent, faults,
                   remote, local, verDone, hasUpdate>>

\* await execAsync(`git clone ...`)
WebClone ==
    /\ routine \in WebCallers
    /\ pc = "webClone"
    /\ \/ \E t \in WebTemplates :
             /\ fs' = Graft(fs, tempPath, t)
             /\ tmpl' = t
             /\ out' = Append(out, Msg("success", "Repository cloned"))
             /\ pc' = IF replace THEN "webRm" ELSE "webMkdir"
             /\ err' = err
             /\ fsLog' = Append(fsLog, Logged(Call("clone", tempPath), TRUE))
       \/ \E leftover \in BOOLEAN :
             /\ fs' = IF leftover THEN Mkdirp(fs, tempPath) ELSE fs
             /\ err' = "clone"
             /\ pc' = "webCleanup"
             /\ fsLog' = Append(fsLog, Logged(Call("clone", tempPath), FALSE))
             /\ UNCHANGED <<tmpl, out>>
    /\ UNCHANGED <<twoVars, cmdVars, routine, fs0, folder, tempPath, conflicts, prompted, answer, replace,
                   exitCode, existingContent, devflowContent, faults,
                   remote, local, verDone, hasUpdate>>

\* if (replace) await rm(webTargetPath): a failure is thrown
WebRm ==
    /\ routine \in WebCallers
    /\ FsCall("webRm", Call("rm", webTargetPath), TRUE, RmRf(fs, webTargetPath),
              "webMkdir", <<Msg("success", "Existing web folder removed")>>,
              "webCleanup", <<>>, "rm")

WebMkdir ==
    /\ routine \in WebCallers
    /\ FsCall("webMkdir", Call("mkdir", webTargetPath),
              MkdirOk(fs, webTargetPath), Mkdirp(fs, webTargetPath),
              "webCopy", <<>>, "webCleanup", <<>>, "mkdir")

WebCopy ==
    /\ routine \in WebCallers
    /\ CopyCall("webCopy", webSourcePath, webTargetPath,
                "webCleanup", <<Msg("success", "Web folder installed")>>,
                "webCleanup", <<>>, "copyDirectory")

\* the finally block of setupWebFolder
WebCleanup ==
    /\ routine \in WebCallers
    /\ FsCall("webCleanup", Call("rm", tempPath), TRUE, RmRf(fs, tempPath),
              IF err = "none" THEN AfterSetup ELSE "threw", CleanedUp,
              IF err = "none" THEN AfterSetup ELSE "threw", CleanedUp, err)

(***************************************************************************)
(* Dependency check (deps.ts): the machine the probes look at              *)
(***************************************************************************)
\* a tool the machine lacks; one whose version probe fails; one that prints text
Absent == [found |-> FALSE, ran |-> FALSE, text |-> <<>>]

NoVersion == [found |-> TRUE, ran |-> FALSE, text |-> <<>>]

Prints(text) == [found |-> TRUE, ran |-> TRUE, text |-> text]

\* what `node --version` can print: old, current, without the v, empty, no digits
NodeTexts == {<<"v", "1", "6">>, <<"v", "2", "0">>, <<"1", "8">>, <<>>, <<"x">>}

\* what `python --version` can print ("Python " is one token of the text)
PythonTexts == {<<"Python ", "2", ".", "7">>, <<"Python ", "3", ".", "9">>, <<>>, <<"x">>}

\* what the release files can hold, as the words of the lower-cased text:
\* nothing, one marker, a word that is no marker, markers of two families
ReleaseTexts == {<<>>, <<"ubuntu">>, <<"pop">>, <<"fedora">>, <<"rocky">>, <<"arch">>,
                 <<"gentoo">>, <<"fedora", "arch">>}

\* process.platform, and for the platforms other than darwin and win32 the
\* outcome of the cat of detectOS: ran is FALSE when execAsync rejects
Platforms ==
    {[platform |-> "darwin", ran |-> FALSE, text |-> <<>>],
     [platform |-> "win32", ran |-> FALSE, text |-> <<>>],
     [platform |-> "linux", ran |-> FALSE, text |-> <<>>],
     [platform |-> "freebsd", ran |-> FALSE, text |-> <<>>],
     [platform |-> "freebsd", ran |-> TRUE, text |-> <<>>]}
    \cup {[platform |-> "linux", ran |-> TRUE, text |-> t] : t \in ReleaseTexts}

\* python is probed only after python3 was not found
Machines ==
    {m \in [os : Platforms,
            git : {Absent, NoVersion, Prints(<<"g", "i", "t", " ", "2">>)},
            claude : {Absent, NoVersion},
            node : {Absent, NoVersion} \cup {Prints(t) : t \in NodeTexts},
            python3 : {Absent, NoVersion, Prints(<<"Python ", "3", ".", "9">>)},
            python : {Absent, NoVersion} \cup {Prints(t) : t \in PythonTexts},
            gcc : {Absent, NoVersion},
            make : {Absent, NoVersion}] :
        m.python3.found => m.python = Absent}

\* the machine on which every probe fails
BareMachine ==
    [os |-> [platform |-> "darwin", ran |-> FALSE, text |-> <<>>],
     git |-> Absent, claude |-> Absent, node |-> Absent, python3 |-> Absent,
     python |-> Absent, gcc |-> Absent, make |-> Absent]

\* the machines of the init command's runs: complete, one missing tool of
\* each list, nothing installed
FewMachines ==
    LET full == [os |-> [platform |-> "linux", ran |-> TRUE, text |-> <<"ubuntu">>],
                 git |-> Prints(<<"g", "i", "t", " ", "2">>), claude |-> NoVersion,
                 node |-> Prints(<<"v", "2", "0">>),
                 python3 |-> Prints(<<"Python ", "3", ".", "9">>), python |-> Absent,
                 gcc |-> NoVersion, make |-> NoVersion]
    IN  {full,
         [full EXCEPT !.git = Absent],
         [full EXCEPT !.make = Absent],
         BareMachine}

DecimalDigits == <<"0", "1", "2", "3", "4", "5", "6", "7", "8", "9">>

IsDigit(c) == \E i \in 1..Len(DecimalDigits) : DecimalDigits[i] = c

DigitOf(c) == (CHOOSE i \in 1..Len(DecimalDigits) : DecimalDigits[i] = c) - 1

\* parseInt(digits, 10) of a non-empty run of digits
RECURSIVE parseInt(_)
parseInt(ds) ==
    IF ds = <<>> THEN 0
    ELSE 10 * parseInt(SubSeq(ds, 1, Len(ds) - 1)) + DigitOf(ds[Len(ds)])

\* the longest run of digits of text that starts at position i
DigitsFrom(text, i) ==
    LET last == CHOOSE j \in (i - 1)..Len(text) :
                    /\ \A k \in i..j : IsDigit(text[k])
                    /\ (j < Len(text) => ~IsDigit(text[j + 1]))
    IN  SubSeq(text, i, last)

\* version.match(/v?(\d+)/): the first run of digits, <<>> when there is none
MatchDigits(text) ==
    IF \A i \in 1..Len(text) : ~IsDigit(text[i]) THEN <<>>
    ELSE DigitsFrom(text, CHOOSE i \in 1..Len(text) :
                              IsDigit(text[i]) /\ \A j \in 1..(i - 1) : ~IsDigit(text[j]))

\* the positions where "Python " is followed by a digit
PythonAt(text) == {i \in 1..(Len(text) - 1) : text[i] = "Python " /\ IsDigit(text[i + 1])}

\* version.match(/Python (\d+)/): the digits after the first "Python "
MatchPython(text) ==
    IF PythonAt(text) = {} THEN <<>>
    ELSE DigitsFrom(text, 1 + CHOOSE i \in PythonAt(text) : \A j \in PythonAt(text) : i <= j)

\* text.replace("Python ", ""): the first occurrence is dropped
DropPython(text) ==
    IF \A i \in 1..Len(text) : text[i] # "Python " THEN text
    ELSE LET k == CHOOSE i \in 1..Len(text) :
                      text[i] = "Python " /\ \A j \in 1..(i - 1) : text[j] # "Python "
         IN  SubSeq(text, 1, k - 1) \o SubSeq(text, k + 1, Len(text))

\* text.substring(0, n)
substring0(text, n) == SubSeq(text, 1, Min(n, Len(text)))

\* content.includes(word) on the words of the release text
includesWord(words, word) == \E i \in 1..Len(words) : words[i] = word

\* mutant: a failing cat is not caught, no platform is named
detectOSNoFallback(os) ==
    IF os.platform = "darwin" THEN [id |-> "macos", name |-> "macOS"]
    ELSE IF os.platform = "win32" THEN [id |-> "windows", name |-> "Windows"]
    ELSE IF ~os.ran THEN [id |-> "unknown", name |-> "Unknown"]
    ELSE IF \E w \in {"ubuntu", "debian", "linuxmint", "pop"} : includesWord(os.text, w)
         THEN [id |-> "ubuntu", name |-> "Ubuntu/Debian"]
    ELSE IF includesWord(os.text, "fedora") THEN [id |-> "fedora", name |-> "Fedora"]
    ELSE IF \E w \in {"rhel", "centos", "rocky", "almalinux"} : includesWord(os.text, w)
         THEN [id |-> "rhel", name |-> "RHEL/CentOS/Rocky"]
    ELSE IF \E w \in {"arch", "manjaro"} : includesWord(os.text, w)
         THEN [id |-> "arch", name |-> "Arch Linux"]
    ELSE [id |-> "linux", name |-> "Linux"]

\* detectOS(): the platform decides; on the others the release text does,
\* and a failing cat falls through to generic Linux
detectOS(os) ==
    IF os.platform = "darwin" THEN [id |-> "macos", name |-> "macOS"]
    ELSE IF os.platform = "win32" THEN [id |-> "windows", name |-> "Windows"]
    ELSE IF ~os.ran THEN [id |-> "linux", name |-> "Linux"]
    ELSE IF \E w \in {"ubuntu", "debian", "linuxmint", "pop"} : includesWord(os.text, w)
         THEN [id |-> "ubuntu", name |-> "Ubuntu/Debian"]
    ELSE IF includesWord(os.text, "fedora") THEN [id |-> "fedora", name |-> "Fedora"]
    ELSE IF \E w \in {"rhel", "centos", "rocky", "almalinux"} : includesWord(os.text, w)
         THEN [id |-> "rhel", name |-> "RHEL/CentOS/Rocky"]
    ELSE IF \E w \in {"arch", "manjaro"} : includesWord(os.text, w)
         THEN [id |-> "arch", name |-> "Arch Linux"]
    ELSE [id |-> "linux", name |-> "Linux"]

\* commandExists(command) and getVersion(command) as the log keeps them
ExistsProbe(command, tool) == Logged(Call("commandExists", <<command>>), tool.found)

VersionProbe(command, tool) == Logged(Call("getVersion", <<command>>), tool.ran)

\* `if (version)`: the probe ran and printed something
Truthy(tool) == tool.ran /\ tool.text # <<>>

\* mutant: the skipped check still names the platform
SkippedReportDetected ==
    [hasErrors |-> FALSE, missingCli |-> <<>>, missingWeb |-> <<>>,
     osId |-> "linux", osName |-> "Linux"]

\* what checkDependencies(true) returns
SkippedReport ==
    [hasErrors |-> FALSE, missingCli |-> <<>>, missingWeb |-> <<>>,
     osId |-> "unknown", osName |-> "Unknown"]

\* depsResult before checkDependencies has returned
NoReport == [hasErrors |-> FALSE, missingCli |-> <<>>, missingWeb |-> <<>>,
             osId |-> "", osName |-> ""]

NoOs == [id |-> "", name |-> ""]

\* routines that run checkDependencies
DepsCallers == {"checkDependencies", "initCommand"}

\* variables no step of checkDependencies changes
depsFrame == <<twoVars, routine, fs, fs0, folder, tempPath, tmpl, conflicts, prompted, answer, replace,
               err, exitCode, existingContent, devflowContent, faults, remote, local,
               verDone, hasUpdate, skipDeps, machine, depsAnswer, response, error>>

\* where checkDependencies returns to
AfterDeps == IF routine = "initCommand" THEN "gate" ELSE "returned"

(***************************************************************************)
(* checkDependencies (deps.ts)                                             *)
(***************************************************************************)
\* if (skipDeps) return {hasErrors: false, ...}
DepsSkip ==
    /\ routine \in DepsCallers
    /\ pc = "checkDependencies"
    /\ skipDeps
    /\ depsResult' = SkippedReport
    /\ pc' = AfterDeps
    /\ UNCHANGED <<osInfo, missingCli, missingWeb, out, fsLog>>
    /\ UNCHANGED depsFrame

\* const osInfo = await detectOS(); output.info("Checking dependencies...")
DepsDetectOS ==
    /\ routine \in DepsCallers
    /\ pc = "checkDependencies"
    /\ ~skipDeps
    /\ osInfo' = detectOS(machine.os)
    /\ fsLog' = Append(fsLog, Logged(Call("detectOS", <<machine.os.platform>>), TRUE))
    /\ out' = out \o <<Msg("info", "Checking dependencies..."), Msg("write", "\n")>>
    /\ pc' = "checkGit"
    /\ UNCHANGED <<missingCli, missingWeb, depsResult>>
    /\ UNCHANGED depsFrame

\* Required: Git
DepsGit ==
    /\ routine \in DepsCallers
    /\ pc = "checkGit"
    /\ IF machine.git.found
       THEN /\ fsLog' = fsLog \o <<ExistsProbe("git", machine.git),
                                   VersionProbe("git", machine.git)>>
            /\ out' = Append(out, MsgIn("success", "Git: ",
                                 IF Truthy(machine.git)
                                 THEN substring0(machine.git.text, 20) ELSE <<>>))
            /\ missingCli' = missingCli
       ELSE /\ fsLog' = Append(fsLog, ExistsProbe("git", machine.git))
            /\ out' = Append(out, Msg("error", "Git: not found"))
            /\ missingCli' = Append(missingCli, "git")
    /\ pc' = "checkClaude"
    /\ UNCHANGED <<osInfo, missingWeb, depsResult>>
    /\ UNCHANGED depsFrame

\* Required: Claude Code CLI
DepsClaude ==
    /\ routine \in DepsCallers
    /\ pc = "checkClaude"
    /\ fsLog' = Append(fsLog, ExistsProbe("claude", machine.claude))
    /\ IF machine.claude.found
       THEN /\ out' = Append(out, Msg("success", "Claude Code: installed"))
            /\ missingCli' = missingCli
       ELSE /\ out' = Append(out, Msg("warn", "Claude Code: not found"))
            /\ missingCli' = Append(missingCli, "claude-code")
    /\ pc' = "checkNode"
    /\ UNCHANGED <<osInfo, missingWeb, depsResult>>
    /\ UNCHANGED depsFrame

\* mutant: version 18 itself counts as too old
NodeTooOldInclusive(text) == MatchDigits(text) # <<>> /\ parseInt(MatchDigits(text)) <= 18

\* the major version is read and is below 18
NodeTooOld(text) == MatchDigits(text) # <<>> /\ parseInt(MatchDigits(text)) < 18

\* Optional: Node.js
DepsNode ==
    /\ routine \in DepsCallers
    /\ pc = "checkNode"
    /\ IF machine.node.found
       THEN /\ fsLog' = fsLog \o <<ExistsProbe("node", machine.node),
                                   VersionProbe("node", machine.node)>>
            /\ IF ~Truthy(machine.node)
               THEN UNCHANGED <<out, missingWeb>>
               ELSE IF NodeTooOld(machine.node.text)
               THEN /\ out' = Append(out, MsgIn("warn", "Node.js: (recommended 18+)",
                                                machine.node.text))
                    /\ missingWeb' = Append(missingWeb, "nodejs-upgrade")
               ELSE /\ out' = Append(out, MsgIn("success", "Node.js: ", machine.node.text))
                    /\ missingWeb' = missingWeb
       ELSE /\ fsLog' = Append(fsLog, ExistsProbe("node", machine.node))
            /\ out' = Append(out, Msg("warn", "Node.js: not found (required for Web IDE)"))
            /\ missingWeb' = Append(missingWeb, "nodejs")
    /\ pc' = "checkPython"
    /\ UNCHANGED <<osInfo, missingCli, depsResult>>
    /\ UNCHANGED depsFrame

\* match && parseInt(match[1], 10) >= 3
IsPython3(text) == MatchPython(text) # <<>> /\ parseInt(MatchPython(text)) >= 3

\* Optional: Python 3, then python as the fallback
DepsPython ==
    /\ routine \in DepsCallers
    /\ pc = "checkPython"
    /\ IF machine.python3.found
       THEN /\ fsLog' = fsLog \o <<ExistsProbe("python3", machine.python3),
                                   VersionProbe("python3", machine.python3)>>
            /\ out' = IF Truthy(machine.python3)
                      THEN Append(out, MsgIn("success", "Python3: ",
                                             DropPython(machine.python3.text)))
                      ELSE out
            /\ missingWeb' = missingWeb
       ELSE IF machine.python.found
       THEN /\ fsLog' = fsLog \o <<ExistsProbe("python3", machine.python3),
                                   ExistsProbe("python", machine.python),
                                   VersionProbe("python", machine.python)>>
            /\ IF ~Truthy(machine.python)
               THEN UNCHANGED <<out, missingWeb>>
               ELSE IF IsPython3(machine.python.text)
               THEN /\ out' = Append(out, MsgIn("success", "Python: ",
                                                DropPython(machine.python.text)))
                    /\ missingWeb' = missingWeb
               ELSE /\ out' = Append(out, MsgIn("warn", "Python: (Python 3 required)",
                                                DropPython(machine.python.text)))
                    /\ missingWeb' = Append(missingWeb, "python3")
       ELSE /\ fsLog' = fsLog \o <<ExistsProbe("python3", machine.python3),
                                   ExistsProbe("python", machine.python)>>
            /\ out' = Append(out, Msg("warn", "Python3: not found (required for Web IDE)"))
            /\ missingWeb' = Append(missingWeb, "python3")
    /\ pc' = "checkGcc"
    /\ UNCHANGED <<osInfo, missingCli, depsResult>>
    /\ UNCHANGED depsFrame

\* Optional: GCC
DepsGcc ==
    /\ routine \in DepsCallers
    /\ pc = "checkGcc"
    /\ fsLog' = Append(fsLog, ExistsProbe("gcc", machine.gcc))
    /\ IF machine.gcc.found
       THEN /\ out' = Append(out, Msg("success", "GCC: installed"))
            /\ missingWeb' = missingWeb
       ELSE /\ out' = Append(out, Msg("warn", "GCC: not found (required for Web IDE)"))
            /\ missingWeb' = Append(missingWeb, "gcc")
    /\ pc' = "checkMake"
    /\ UNCHANGED <<osInfo, missingCli, depsResult>>
    /\ UNCHANGED depsFrame

\* Optional: Make
DepsMake ==
    /\ routine \in DepsCallers
    /\ pc = "checkMake"
    /\ fsLog' = Append(fsLog, ExistsProbe("make", machine.make))
    /\ IF machine.make.found
       THEN /\ out' = Append(out, Msg("success", "Make: installed"))
            /\ missingWeb' = missingWeb
       ELSE /\ out' = Append(out, Msg("warn", "Make: not found (required for Web IDE)"))
            /\ missingWeb' = Append(missingWeb, "make")
    /\ pc' = "depsReturn"
    /\ UNCHANGED <<osInfo, missingCli, depsResult>>
    /\ UNCHANGED depsFrame

\* mutant: only the required tools count as errors
hasErrorsCliOnly(cli, web) == Len(cli) > 0

\* missingCli.length > 0 || missingWeb.length > 0
hasErrors(cli, web) == Len(cli) > 0 \/ Len(web) > 0

\* return {hasErrors, missingCli, missingWeb, osId, osName}
DepsReturn ==
    /\ routine \in DepsCallers
    /\ pc = "depsReturn"
    /\ depsResult' = [hasErrors |-> hasErrors(missingCli, missingWeb),
                      missingCli |-> missingCli, missingWeb |-> missingWeb,
                      osId |-> osInfo.id, osName |-> osInfo.name]
    /\ out' = Append(out, Msg("write", "\n"))
    /\ pc' = AfterDeps
    /\ UNCHANGED <<osInfo, missingCli, missingWeb, fsLog>>
    /\ UNCHANGED depsFrame

(***************************************************************************)
(* handleInitError (init.ts) and handleIdeError (ide.ts)                   *)
(***************************************************************************)
\* characters of error messages
MsgChars == {"g", "i", "t", "x"}

\* characters in an error message
MaxMsgLen == 4

MessageTexts == TextsUpTo(MsgChars, MaxMsgLen)

\* The values a handler can be given.  kind is typeof's answer ("null" for
\* null); code is the code property ("" when there is none); hasMessage says
\* whether there is a message property, messageIsString whether it is a
\* string, message is String(error.message) and str is String(error).
PrimitiveErrors ==
    {[kind |-> "undefined", code |-> "", hasMessage |-> FALSE, messageIsString |-> FALSE,
      message |-> <<>>, str |-> <<"undefined">>],
     [kind |-> "null", code |-> "", hasMessage |-> FALSE, messageIsString |-> FALSE,
      message |-> <<>>, str |-> <<"null">>]}
    \cup {[kind |-> "string", code |-> "", hasMessage |-> FALSE, messageIsString |-> FALSE,
           message |-> <<>>, str |-> t] : t \in MessageTexts}

ObjectErrors ==
    {[kind |-> "object", code |-> c, hasMessage |-> TRUE, messageIsString |-> s,
      message |-> t, str |-> <<"Error: ">> \o t] :
        c \in {"", "ENOENT", "EACCES"}, s \in BOOLEAN, t \in MessageTexts}
    \cup {[kind |-> "object", code |-> c, hasMessage |-> FALSE, messageIsString |-> FALSE,
           message |-> <<>>, str |-> <<"[object Object]">>] : c \in {"", "ENOENT", "EACCES"}}

ErrorValues == PrimitiveErrors \cup ObjectErrors

NoError == [kind |-> "undefined", code |-> "", hasMessage |-> FALSE,
            messageIsString |-> FALSE, message |-> <<>>, str |-> <<>>]

\* text.includes(part)
includes(text, part) ==
    \E i \in 1..(Len(text) - Len(part) + 1) : SubSeq(text, i, i + Len(part) - 1) = part

\* `error &&`: undefined, null and the empty string are falsy
TruthyError(e) == e.kind = "object" \/ (e.kind = "string" /\ e.str # <<>>)

\* mutant: any ENOENT is taken for a missing git
IsGitMissingAnyEnoent(e) == e.kind = "object" /\ e.code = "ENOENT"

\* the condition of the first branch of the two handlers
IsGitMissing(e) ==
    /\ TruthyError(e)
    /\ e.kind = "object"
    /\ e.code = "ENOENT"
    /\ e.hasMessage
    /\ e.messageIsString
    /\ includes(e.message, <<"g", "i", "t">>)

\* const errorMessage = ... ? String(error.message) : String(error)
errorMessage(e) ==
    IF TruthyError(e) /\ e.kind = "object" /\ e.hasMessage THEN e.message ELSE e.str

\* the message of a handler: prefix is the handler's own generic text
HandlerMessage(e, prefix) ==
    IF IsGitMissing(e)
    THEN Msg("error", "Git is not installed or not found in PATH.")
    ELSE MsgIn("error", prefix, errorMessage(e))

\* routines that end in handleInitError
InitHandlers == {"handleInitError", "initCommand"}

\* variables the handlers leave alone
handlerFrame == <<twoVars, routine, fs, fs0, folder, tempPath, tmpl, conflicts, prompted, answer,
                  replace, err, fsLog, existingContent, devflowContent, faults, remote,
                  local, verDone, hasUpdate, cmdVars>>

\* handleInitError(error): one message, then process.exit(1)
HandleInitError ==
    /\ routine \in InitHandlers
    /\ pc = "handle"
    /\ out' = Append(out, HandlerMessage(error, "Error initializing project: "))
    /\ exitCode' = 1
    /\ pc' = "exited"
    /\ UNCHANGED handlerFrame

\* handleIdeError(error): one message, then process.exit(1)
HandleIdeError ==
    /\ routine = "handleIdeError"
    /\ pc = "handle"
    /\ out' = Append(out, HandlerMessage(error, "Error starting IDE: "))
    /\ exitCode' = 1
    /\ pc' = "exited"
    /\ UNCHANGED handlerFrame

(***************************************************************************)
(* The init command (cli.ts)                                               *)
(***************************************************************************)
\* what showInstallInstructions writes for a report with errors: the
\* heading, the block of the platform when web tools are missing, the Claude
\* Code and Git blocks, the closing warning
showInstallInstructions(result) ==
    IF ~result.hasErrors
    THEN <<Msg("success", "All dependencies are installed!"), Msg("write", "\n")>>
    ELSE <<Msg("warn", "Missing dependencies:"), Msg("write", "\n")>>
         \o (IF Len(result.missingWeb) > 0
             THEN <<MsgIn("write", "# Install dependencies",
                          IF result.osId \in {"ubuntu", "fedora", "rhel", "arch",
                                              "macos", "windows"}
                          THEN result.osId ELSE "manually")>>
             ELSE <<>>)
         \o (IF \E i \in 1..Len(result.missingCli) : result.missingCli[i] = "claude-code"
             THEN <<Msg("write", "# Claude Code:")>> ELSE <<>>)
         \o (IF /\ \E i \in 1..Len(result.missingCli) : result.missingCli[i] = "git"
                /\ result.osId \in {"ubuntu", "fedora", "rhel", "arch", "macos"}
             THEN <<MsgIn("write", "# Git:", result.osId)>> ELSE <<>>)
         \o (IF Len(result.missingCli) > 0
             THEN <<Msg("warn", "Missing CLI dependencies. Agent installation may not work.")>>
             ELSE <<>>)

\* if (depsResult.hasErrors) { showInstallInstructions(depsResult); ... }
CliGate ==
    /\ routine = "initCommand"
    /\ pc = "gate"
    /\ IF depsResult.hasErrors
       THEN /\ out' = out \o showInstallInstructions(depsResult)
            /\ pc' = "promptContinue"
       ELSE /\ out' = out
            /\ pc' = "mkdirTarget"
    /\ UNCHANGED <<exitCode>>
    /\ UNCHANGED handlerFrame

ContinuePrompt == Msg("question", "Continue anyway? (y/n) ")

\* mutant: every answer continues
promptContinueAlways(a) == TRUE

\* promptContinue's result for the answer typed
promptContinue(a) == startsWith(toLowerCase(a), <<"y">>)

\* const shouldContinue = await promptContinue(); process.exit(0) when not
CliPromptContinue ==
    /\ routine = "initCommand"
    /\ pc = "promptContinue"
    /\ \E a \in Answers :
          /\ depsAnswer' = a
          /\ out' = out \o <<Msg("write", "\n"), ContinuePrompt, Msg("write", "\n")>>
          /\ IF promptContinue(a)
             THEN /\ pc' = "mkdirTarget"
                  /\ exitCode' = exitCode
             ELSE /\ pc' = "exited"
                  /\ exitCode' = 0
    /\ UNCHANGED <<twoVars, routine, fs, fs0, folder, tempPath, tmpl, conflicts, prompted, answer,
                   replace, err, fsLog, existingContent, devflowContent, faults, remote,
                   local, verDone, hasUpdate, skipDeps, machine, osInfo, missingCli,
                   missingWeb, depsResult, response, error>>

\* the errors an exception of initializeProject can be: a failed git clone
\* (git missing, or git failing), a failed file-system call
ThrownBy(e) ==
    IF e = "clone"
    THEN {[kind |-> "object", code |-> "ENOENT", hasMessage |-> TRUE,
           messageIsString |-> TRUE, message |-> <<"g", "i", "t">>,
           str |-> <<"Error: ", "g", "i", "t">>],
          [kind |-> "object", code |-> "", hasMessage |-> TRUE,
           messageIsString |-> TRUE, message |-> <<"g", "i", "t", "x">>,
           str |-> <<"Error: ", "g", "i", "t", "x">>]}
    ELSE {[kind |-> "object", code |-> c, hasMessage |-> TRUE,
           messageIsString |-> TRUE, message |-> <<"x">>,
           str |-> <<"Error: ", "x">>] : c \in {"ENOENT", "EACCES"}}

\* catch (error: unknown) { handleInitError(error) }
CliCatch ==
    /\ routine = "initCommand"
    /\ pc = "threw"
    /\ error' \in ThrownBy(err)
    /\ pc' = "handle"
    /\ UNCHANGED <<twoVars, routine, fs, fs0, folder, tempPath, tmpl, conflicts, prompted, answer,
                   replace, err, exitCode, out, fsLog, existingContent, devflowContent,
                   faults, remote, local, verDone, hasUpdate, skipDeps, machine, osInfo,
                   missingCli, missingWeb, depsResult, depsAnswer, response>>

(***************************************************************************)
(* Version check (ide.ts): getLocalVersion, getRemoteVersion,              *)
(* checkForUpdate                                                          *)
(***************************************************************************)
\* a version while its promise is pending, the null version, a known one
Pending == [state |-> "pending", version |-> <<>>]

NullVersion == [state |-> "null", version |-> <<>>]

Known(v) == [state |-> "known", version |-> v]

\* the versions the manifests of the runs declare
IdeVersions == {<<"1">>, <<"1", ".", "0">>, <<"1", ".", "1">>, <<"0", ".", "1">>}

\* the text of a package.json that declares version v; one that declares none
Manifest(v) == <<"{", "version:">> \o v \o <<"}">>

EmptyManifest == <<"{", "}">>

\* a text JSON.parse rejects
BrokenManifest == <<"{">>

\* JSON.parse(content) followed by the read of .version: ok is FALSE when
\* the parse throws, hasVersion is FALSE when the field is missing
ParseManifest(content) ==
    IF Len(content) < 2 \/ content[1] # "{" \/ content[Len(content)] # "}"
    THEN [ok |-> FALSE, hasVersion |-> FALSE, version |-> <<>>]
    ELSE IF Len(content) = 2
    THEN [ok |-> TRUE, hasVersion |-> FALSE, version |-> <<>>]
    ELSE IF content[2] = "version:"
    THEN [ok |-> TRUE, hasVersion |-> TRUE, version |-> SubSeq(content, 3, Len(content) - 1)]
    ELSE [ok |-> FALSE, hasVersion |-> FALSE, version |-> <<>>]

\* data.version ?? null, and null when the parse threw
VersionOf(content) ==
    LET data == ParseManifest(content)
    IN  IF data.ok /\ data.hasVersion THEN Known(data.version) ELSE NullVersion

\* what fetch can do: reject, resolve with a non-success status, resolve
\* with a body
Responses ==
    {[fetched |-> TRUE, arrived |-> FALSE, ok |-> FALSE, body |-> <<>>],
     [fetched |-> TRUE, arrived |-> TRUE, ok |-> FALSE, body |-> <<"4", "0", "4">>]}
    \cup {[fetched |-> TRUE, arrived |-> TRUE, ok |-> TRUE, body |-> b] :
             b \in {BrokenManifest, EmptyManifest} \cup {Manifest(v) : v \in IdeVersions}}

NoResponse == [fetched |-> FALSE, arrived |-> FALSE, ok |-> FALSE, body |-> <<>>]

\* getRemoteVersion() for a response
RemoteVersionOf(r) == IF r.arrived /\ r.ok THEN VersionOf(r.body) ELSE NullVersion

packageJsonPath == Append(WebPath, "package.json")

nodeModulesPath == Append(WebPath, "node_modules")

\* the package root before startIde or updateIde runs: without a web folder,
\* or with one whose manifest declares a version, declares none, does not
\* parse or is missing, with and without node_modules
IdeWebs ==
    {PutFile(RootOnly, Join(WebPath, <<"src", "old.tsx">>), <<"o">>)}
    \cup {PutFile(PutFile(RootOnly, Join(WebPath, <<"src", "old.tsx">>), <<"o">>),
                  packageJsonPath, c) :
             c \in {BrokenManifest, EmptyManifest} \cup {Manifest(v) : v \in IdeVersions}}

IdeRoots ==
    {RootOnly} \cup IdeWebs
    \cup {PutFile(w, Append(nodeModulesPath, "m.js"), <<"n">>) : w \in IdeWebs}

\* variables no step of the version check changes
checkFrame == <<twoVars, routine, fs, fs0, folder, tempPath, tmpl, conflicts, prompted, answer,
                replace, err, exitCode, out, existingContent, devflowContent, verDone,
                hasUpdate, skipDeps, machine, osInfo, missingCli, missingWeb, depsResult,
                depsAnswer, error>>

\* mutant: a fetch that failed first makes the local read give up as well
GetLocalVersionAfterRemote ==
    /\ routine \in {"startIde", "updateIde"}
    /\ pc = "checkForUpdate"
    /\ local = Pending
    /\ \E inject \in Inject :
          LET success == ReadOk(fs, packageJsonPath) /\ ~inject
          IN  /\ local' = IF success /\ remote # NullVersion
                          THEN VersionOf(ReadFile(fs, packageJsonPath))
                          ELSE NullVersion
              /\ faults' = faults + (IF inject THEN 1 ELSE 0)
              /\ fsLog' = Append(fsLog, Logged(Call("readFile", packageJsonPath), success))
    /\ UNCHANGED <<pc, remote, response>>
    /\ UNCHANGED checkFrame

\* getLocalVersion(webPath): the read or the parse may throw, which is null
GetLocalVersion ==
    /\ routine \in {"startIde", "updateIde"}
    /\ pc = "checkForUpdate"
    /\ local = Pending
    /\ \E inject \in Inject :
          LET success == ReadOk(fs, packageJsonPath) /\ ~inject
          IN  /\ local' = IF success THEN VersionOf(ReadFile(fs, packageJsonPath))
                                     ELSE NullVersion
              /\ faults' = faults + (IF inject THEN 1 ELSE 0)
              /\ fsLog' = Append(fsLog, Logged(Call("readFile", packageJsonPath), success))
    /\ UNCHANGED <<pc, remote, response>>
    /\ UNCHANGED checkFrame

\* getRemoteVersion(): a rejected fetch, a non-success status, a body that
\* does not parse or lacks the field are all null
GetRemoteVersion ==
    /\ routine \in {"startIde", "updateIde"}
    /\ pc = "checkForUpdate"
    /\ remote = Pending
    /\ \E r \in Responses :
          /\ response' = r
          /\ remote' = RemoteVersionOf(r)
          /\ fsLog' = Append(fsLog, Logged(Call("fetch", <<>>), r.arrived))
    /\ UNCHANGED <<pc, local, faults>>
    /\ UNCHANGED checkFrame

\* mutant: an unknown local version counts as the oldest
hasUpdateOfUnknownLocal(l, r) == r.state = "known" /\ isNewerVersion(r.version, l.version)

\* localVersion !== null && remoteVersion !== null && isNewerVersion(...)
hasUpdateOf(l, r) ==
    l.state = "known" /\ r.state = "known" /\ isNewerVersion(r.version, l.version)

\* variables the steps of startIde and updateIde outside setupWebFolder
\* leave alone
ideFrame == <<twoVars, routine, fs0, folder, tmpl, conflicts, prompted, answer, exitCode,
              existingContent, devflowContent, faults, skipDeps, machine, osInfo,
              missingCli, missingWeb, depsResult, depsAnswer, response, error>>

(***************************************************************************)
(* startIde and updateIde (ide.ts)                                         *)
(***************************************************************************)
\* if (!(await pathExists(webTargetPath))) await setupWebFolder(...)
StartIdeEntry ==
    /\ routine = "startIde"
    /\ pc = "pathExists"
    /\ fsLog' = Append(fsLog, Logged(Call("access", WebPath), Exists(fs, WebPath)))
    /\ IF Exists(fs, WebPath)
       THEN /\ pc' = "checkForUpdate"
            /\ UNCHANGED <<tempPath, replace>>
       ELSE /\ pc' = "webClone"
            /\ tempPath' = WebTempPath
            /\ replace' = FALSE
    /\ UNCHANGED <<fs, out, err, remote, local, verDone, hasUpdate>>
    /\ UNCHANGED ideFrame

\* mutant: a newer remote version makes startIde install it
StartIdeAfterCheckUpdating ==
    /\ routine = "startIde"
    /\ pc = "checkForUpdate"
    /\ local # Pending
    /\ remote # Pending
    /\ hasUpdate' = hasUpdateOf(local, remote)
    /\ verDone' = TRUE
    /\ IF hasUpdate'
       THEN /\ pc' = "webClone"
            /\ tempPath' = WebTempPath
            /\ replace' = TRUE
       ELSE /\ pc' = "nodeModulesAccess"
            /\ UNCHANGED <<tempPath, replace>>
    /\ UNCHANGED <<fs, out, err, fsLog, remote, local>>
    /\ UNCHANGED ideFrame

\* const versionCheck = await checkForUpdate(webTargetPath), once both
\* promises have settled; a newer remote version is only announced
StartIdeAfterCheck ==
    /\ routine = "startIde"
    /\ pc = "checkForUpdate"
    /\ local # Pending
    /\ remote # Pending
    /\ hasUpdate' = hasUpdateOf(local, remote)
    /\ verDone' = TRUE
    /\ out' = IF hasUpdate'
              THEN out \o <<MsgIn("warn", "New version available: ",
                                  <<remote.version, local.version>>),
                            Msg("info", "Run 'devflow ide update' to update to the latest version")>>
              ELSE out
    /\ pc' = "nodeModulesAccess"
    /\ UNCHANGED <<fs, tempPath, replace, err, fsLog, remote, local>>
    /\ UNCHANGED ideFrame

\* if (!(await pathExists(nodeModulesPath))) the dependencies are installed
NodeModulesAccess ==
    /\ routine = "startIde"
    /\ pc = "nodeModulesAccess"
    /\ fsLog' = Append(fsLog, Logged(Call("access", nodeModulesPath),
                                     Exists(fs, nodeModulesPath)))
    /\ IF Exists(fs, nodeModulesPath)
       THEN /\ pc' = "runDev"
            /\ out' = Append(out, Msg("info", "Starting DevFlow IDE..."))
       ELSE /\ pc' = "npmInstall"
            /\ out' = Append(out, Msg("info", "Installing dependencies..."))
    /\ UNCHANGED <<fs, tempPath, replace, err, remote, local, verDone, hasUpdate>>
    /\ UNCHANGED ideFrame

\* mutant: the outcome of npm install is ignored, the server is started anyway
NpmInstallIgnoring ==
    /\ routine = "startIde"
    /\ pc = "npmInstall"
    /\ \E ok \in BOOLEAN :
          LET success == ok /\ IsDir(fs, WebPath)
          IN  /\ fs' = IF success THEN Mkdirp(fs, nodeModulesPath) ELSE fs
              /\ out' = out \o <<Msg("success", "Dependencies installed"),
                                 Msg("info", "Starting DevFlow IDE...")>>
              /\ pc' = "runDev"
              /\ err' = err
              /\ fsLog' = Append(fsLog, Logged(Call("npm install", WebPath), success))
    /\ UNCHANGED <<tempPath, replace, remote, local, verDone, hasUpdate>>
    /\ UNCHANGED ideFrame

\* await runCommand("npm", ["install"], webTargetPath): the child exits with
\* 0 having created node_modules, or the promise rejects
NpmInstall ==
    /\ routine = "startIde"
    /\ pc = "npmInstall"
    /\ \E ok \in BOOLEAN :
          LET success == ok /\ IsDir(fs, WebPath)
          IN  /\ fs' = IF success THEN Mkdirp(fs, nodeModulesPath) ELSE fs
              /\ out' = IF success
                        THEN out \o <<Msg("success", "Dependencies installed"),
                                      Msg("info", "Starting DevFlow IDE...")>>
                        ELSE out
              /\ pc' = IF success THEN "runDev" ELSE "threw"
              /\ err' = IF success THEN err ELSE "npm"
              /\ fsLog' = Append(fsLog, Logged(Call("npm install", WebPath), success))
    /\ UNCHANGED <<tempPath, replace, remote, local, verDone, hasUpdate>>
    /\ UNCHANGED ideFrame

\* await runCommand("npm", ["run", "dev"], webTargetPath): resolves when the
\* server exits with 0, rejects otherwise
RunDev ==
    /\ routine = "startIde"
    /\ pc = "runDev"
    /\ \E ok \in BOOLEAN :
          /\ pc' = IF ok THEN "returned" ELSE "threw"
          /\ err' = IF ok THEN err ELSE "npm"
          /\ fsLog' = Append(fsLog, Logged(Call("npm run dev", WebPath), ok))
    /\ UNCHANGED <<fs, out, tempPath, replace, remote, local, verDone, hasUpdate>>
    /\ UNCHANGED ideFrame

\* if (await pathExists(webTargetPath)) the versions are compared first
UpdateIdeEntry ==
    /\ routine = "updateIde"
    /\ pc = "pathExists"
    /\ fsLog' = Append(fsLog, Logged(Call("access", WebPath), Exists(fs, WebPath)))
    /\ IF Exists(fs, WebPath)
       THEN /\ pc' = "checkForUpdate"
            /\ UNCHANGED <<out, tempPath, replace>>
       ELSE /\ pc' = "webClone"
            /\ out' = Append(out, Msg("info", "Installing DevFlow IDE..."))
            /\ tempPath' = WebTempPath
            /\ replace' = TRUE
    /\ UNCHANGED <<fs, err, remote, local, verDone, hasUpdate>>
    /\ UNCHANGED ideFrame

\* `if (versionCheck.localVersion && versionCheck.remoteVersion)`
BothTruthy(l, r) ==
    l.state = "known" /\ l.version # <<>> /\ r.state = "known" /\ r.version # <<>>

\* mutant: updateIde installs whatever the version check says
UpdateIdeAfterCheckAlways ==
    /\ routine = "updateIde"
    /\ pc = "checkForUpdate"
    /\ local # Pending
    /\ remote # Pending
    /\ hasUpdate' = hasUpdateOf(local, remote)
    /\ verDone' = TRUE
    /\ out' = Append(out, MsgIn("info", "Updating DevFlow IDE from to ",
                                <<local.version, remote.version>>))
    /\ pc' = "webClone"
    /\ tempPath' = WebTempPath
    /\ replace' = TRUE
    /\ UNCHANGED <<fs, err, fsLog, remote, local>>
    /\ UNCHANGED ideFrame

\* the version check has settled: without an update updateIde reports and
\* returns, with one it calls setupWebFolder(packageRoot, webTargetPath, true)
UpdateIdeAfterCheck ==
    /\ routine = "updateIde"
    /\ pc = "checkForUpdate"
    /\ local # Pending
    /\ remote # Pending
    /\ hasUpdate' = hasUpdateOf(local, remote)
    /\ verDone' = TRUE
    /\ IF ~hasUpdate'
       THEN /\ out' = Append(out,
                        IF BothTruthy(local, remote)
                        THEN MsgIn("success", "DevFlow IDE is already up to date (version )",
                                   local.version)
                        ELSE Msg("success", "DevFlow IDE is already up to date"))
            /\ pc' = "returned"
            /\ UNCHANGED <<tempPath, replace>>
       ELSE /\ out' = Append(out, MsgIn("info", "Updating DevFlow IDE from to ",
                                        <<local.version, remote.version>>))
            /\ pc' = "webClone"
            /\ tempPath' = WebTempPath
            /\ replace' = TRUE
    /\ UNCHANGED <<fs, err, fsLog, remote, local>>
    /\ UNCHANGED ideFrame

\* output.success("DevFlow IDE updated successfully")
UpdateReport ==
    /\ routine = "updateIde"
    /\ pc = "updateReport"
    /\ out' = Append(out, Msg("success", "DevFlow IDE updated successfully"))
    /\ pc' = "returned"
    /\ UNCHANGED <<fs, tempPath, replace, err, fsLog, remote, local, verDone, hasUpdate>>
    /\ UNCHANGED ideFrame

(***************************************************************************)
(* The installers' specification                                           *)
(***************************************************************************)
\* the version comparator's variables while an installer runs
VerIdle ==
    /\ remote = <<>>
    /\ local = <<>>
    /\ verDone = FALSE
    /\ hasUpdate = FALSE

\* the variables of the commands while an installer runs on its own
CmdIdle ==
    /\ skipDeps = FALSE
    /\ machine = BareMachine
    /\ osInfo = NoOs
    /\ missingCli = <<>>
    /\ missingWeb = <<>>
    /\ depsResult = NoReport
    /\ depsAnswer = <<>>
    /\ response = NoResponse
    /\ error = NoError

\* no second call of initializeProject is under way
NoCall ==
    [pc |-> "none", tempPath |-> <<>>, tmpl |-> EmptyFs, conflicts |-> <<>>,
     prompted |-> FALSE, answer |-> <<>>, err |-> "none", exitCode |-> -1,
     existingContent |-> <<>>, devflowContent |-> <<>>]

\* the variables of overlapping calls while one routine runs alone
TwoIdle ==
    /\ now = 0
    /\ parked = NoCall

\* initializeProject is entered with the working directory (no folder
\* argument; it exists) or the folder named (which may not exist yet)
InitInitializeProject ==
    /\ routine = "initializeProject"
    /\ pc = "mkdirTarget"
    /\ folder \in Folders
    /\ fs \in Targets \cup (IF folder = "" THEN {} ELSE {EmptyFs})
    /\ tempPath = <<>>
    /\ replace = FALSE

\* setupWebFolder is entered by startIde when the web folder is missing
\* (replace = false) and by updateIde (replace = true)
InitSetupWebFolder ==
    /\ routine = "setupWebFolder"
    /\ pc = "webClone"
    /\ folder = ""
    /\ fs \in PackageRoots
    /\ replace \in BOOLEAN
    /\ (~replace => ~Exists(fs, WebPath))
    /\ tempPath = WebTempPath

Init ==
    /\ InitInitializeProject \/ InitSetupWebFolder
    /\ fs0 = fs
    /\ tmpl = EmptyFs
    /\ conflicts = <<>>
    /\ prompted = FALSE
    /\ answer = <<>>
    /\ err = "none"
    /\ exitCode = -1
    /\ out = <<>>
    /\ fsLog = <<>>
    /\ existingContent = <<>>
    /\ devflowContent = <<>>
    /\ faults = 0
    /\ VerIdle
    /\ CmdIdle
    /\ TwoIdle

Next ==
    \/ MkdirTarget
    \/ Clone
    \/ CheckConflicts
    \/ Question
    \/ AgentsAccess
    \/ AgentsMkdirParent
    \/ AgentsRm
    \/ AgentsMkdir
    \/ AgentsCopy
    \/ DevflowAccess
    \/ DevflowMkdirAgents
    \/ DevflowMkdirMemory
    \/ DevflowMkdirSessions
    \/ YamlAccess
    \/ YamlCp
    \/ YamlWrite
    \/ DocsAccess
    \/ DocsSourceAccess
    \/ DocsRm
    \/ DocsMkdir
    \/ DocsCopy
    \/ SnapshotsMkdir
    \/ GitignoreAccess
    \/ GitignoreTargetAccess
    \/ GitignoreReadExisting
    \/ GitignoreReadDevflow
    \/ GitignoreWrite
    \/ GitignoreCp
    \/ Cleanup
    \/ Report
    \/ WebClone
    \/ WebRm
    \/ WebMkdir
    \/ WebCopy
    \/ WebCleanup

Spec == Init /\ [][Next]_vars

(***************************************************************************)
(* The version comparator's specification: isNewerVersion applied to every *)
(* pair of dotted-numeric strings within the bound                         *)
(***************************************************************************)
InitVer ==
    /\ routine = "isNewerVersion"
    /\ pc = "call"
    /\ remote \in VersionStrings
    /\ local \in VersionStrings
    /\ verDone = FALSE
    /\ hasUpdate = FALSE
    /\ fs = EmptyFs
    /\ fs0 = EmptyFs
    /\ folder = ""
    /\ tempPath = <<>>
    /\ tmpl = EmptyFs
    /\ conflicts = <<>>
    /\ prompted = FALSE
    /\ answer = <<>>
    /\ replace = FALSE
    /\ err = "none"
    /\ exitCode = -1
    /\ out = <<>>
    /\ fsLog = <<>>
    /\ existingContent = <<>>
    /\ devflowContent = <<>>
    /\ faults = 0
    /\ CmdIdle
    /\ TwoIdle

\* isNewerVersion(remoteVersion, localVersion) is called and returns
CallIsNewerVersion ==
    /\ routine = "isNewerVersion"
    /\ pc = "call"
    /\ hasUpdate' = isNewerVersion(remote, local)
    /\ verDone' = TRUE
    /\ pc' = "returned"
    /\ UNCHANGED <<twoVars, cmdVars, routine, fs, fs0, folder, tempPath, tmpl, conflicts, prompted, answer,
                   replace, err, exitCode, out, fsLog, existingContent,
                   devflowContent, faults, remote, local>>

NextVer == CallIsNewerVersion

SpecVer == InitVer /\ [][NextVer]_vars

(***************************************************************************)
(* The other entry points' specifications                                  *)
(***************************************************************************)
\* no step of any routine has run
NothingRun ==
    /\ fs0 = fs
    /\ tmpl = EmptyFs
    /\ conflicts = <<>>
    /\ prompted = FALSE
    /\ answer = <<>>
    /\ err = "none"
    /\ exitCode = -1
    /\ out = <<>>
    /\ fsLog = <<>>
    /\ existingContent = <<>>
    /\ devflowContent = <<>>
    /\ faults = 0

\* the variables checkDependencies and the init command fill
DepsFresh ==
    /\ osInfo = NoOs
    /\ missingCli = <<>>
    /\ missingWeb = <<>>
    /\ depsResult = NoReport
    /\ depsAnswer = <<>>
    /\ response = NoResponse
    /\ error = NoError

\* checkDependencies(skipDeps) on every machine
InitDeps ==
    /\ routine = "checkDependencies"
    /\ pc = "checkDependencies"
    /\ skipDeps \in BOOLEAN
    /\ machine \in Machines
    /\ DepsFresh
    /\ TwoIdle
    /\ fs = EmptyFs
    /\ folder = ""
    /\ tempPath = <<>>
    /\ replace = FALSE
    /\ NothingRun
    /\ VerIdle

NextDeps ==
    \/ DepsSkip
    \/ DepsDetectOS
    \/ DepsGit
    \/ DepsClaude
    \/ DepsNode
    \/ DepsPython
    \/ DepsGcc
    \/ DepsMake
    \/ DepsReturn

SpecDeps == InitDeps /\ [][NextDeps]_vars

\* the targets of the init command's runs: an empty directory, one with a
\* .gitignore only, one with everything DevFlow installs
CliTargets ==
    {RootOnly,
     TargetTree([agents |-> FALSE, devflow |-> FALSE, docs |-> FALSE, gitignore |-> {<<"e">>}]),
     TargetTree([agents |-> TRUE, devflow |-> TRUE, docs |-> TRUE, gitignore |-> {<<"e">>}])}

\* `devflow init [folder] [--skip-deps]`
InitCli ==
    /\ routine = "initCommand"
    /\ pc = "checkDependencies"
    /\ skipDeps \in BOOLEAN
    /\ machine \in (IF skipDeps THEN {BareMachine} ELSE FewMachines)
    /\ DepsFresh
    /\ TwoIdle
    /\ folder \in Folders
    /\ fs \in CliTargets \cup (IF folder = "" THEN {} ELSE {EmptyFs})
    /\ tempPath = <<>>
    /\ replace = FALSE
    /\ NothingRun
    /\ VerIdle

NextCli ==
    \/ DepsSkip
    \/ DepsDetectOS
    \/ DepsGit
    \/ DepsClaude
    \/ DepsNode
    \/ DepsPython
    \/ DepsGcc
    \/ DepsMake
    \/ DepsReturn
    \/ CliGate
    \/ CliPromptContinue
    \/ MkdirTarget
    \/ Clone
    \/ CheckConflicts
    \/ Question
    \/ AgentsAccess
    \/ AgentsMkdirParent
    \/ AgentsRm
    \/ AgentsMkdir
    \/ AgentsCopy
    \/ DevflowAccess
    \/ DevflowMkdirAgents
    \/ DevflowMkdirMemory
    \/ DevflowMkdirSessions
    \/ YamlAccess
    \/ YamlCp
    \/ YamlWrite
    \/ DocsAccess
    \/ DocsSourceAccess
    \/ DocsRm
    \/ DocsMkdir
    \/ DocsCopy
    \/ SnapshotsMkdir
    \/ GitignoreAccess
    \/ GitignoreTargetAccess
    \/ GitignoreReadExisting
    \/ GitignoreReadDevflow
    \/ GitignoreWrite
    \/ GitignoreCp
    \/ Cleanup
    \/ Report
    \/ CliCatch
    \/ HandleInitError

SpecCli == InitCli /\ [][NextCli]_vars

\* startIde() or updateIde() on every package root
InitIde ==
    /\ routine \in {"startIde", "updateIde"}
    /\ pc = "pathExists"
    /\ fs \in IdeRoots
    /\ folder = ""
    /\ tempPath = <<>>
    /\ replace = FALSE
    /\ remote = Pending
    /\ local = Pending
    /\ verDone = FALSE
    /\ hasUpdate = FALSE
    /\ NothingRun
    /\ CmdIdle
    /\ TwoIdle

NextIde ==
    \/ StartIdeEntry
    \/ UpdateIdeEntry
    \/ GetLocalVersion
    \/ GetRemoteVersion
    \/ StartIdeAfterCheck
    \/ UpdateIdeAfterCheck
    \/ WebClone
    \/ WebRm
    \/ WebMkdir
    \/ WebCopy
    \/ WebCleanup
    \/ UpdateReport
    \/ NodeModulesAccess
    \/ NpmInstall
    \/ RunDev

SpecIde == InitIde /\ [][NextIde]_vars

\* handleInitError(error) or handleIdeError(error) on every error value
InitErr ==
    /\ routine \in {"handleInitError", "handleIdeError"}
    /\ pc = "handle"
    /\ error \in ErrorValues
    /\ TwoIdle
    /\ skipDeps = FALSE
    /\ machine = BareMachine
    /\ osInfo = NoOs
    /\ missingCli = <<>>
    /\ missingWeb = <<>>
    /\ depsResult = NoReport
    /\ depsAnswer = <<>>
    /\ response = NoResponse
    /\ fs = EmptyFs
    /\ folder = ""
    /\ tempPath = <<>>
    /\ replace = FALSE
    /\ NothingRun
    /\ VerIdle

NextErr ==
    \/ HandleInitError
    \/ HandleIdeError

SpecErr == InitErr /\ [][NextErr]_vars

(***************************************************************************)
(* Two overlapping calls of initializeProject against one target: two      *)
(* `devflow init` processes started in the same directory.  One call runs  *)
(* in pc, tempPath and the other locals; the locals of the other call wait *)
(* in parked.  The calls take turns while they wait for mkdir and for git  *)
(* clone, and when one of them has ended; of the schedules that interleave *)
(* the later awaits none is followed.  The file system, the terminal and   *)
(* the clock are shared.  No I/O failure is injected.                      *)
(***************************************************************************)
\* the locals of the call that runs
Locals ==
    [pc |-> pc, tempPath |-> tempPath, tmpl |-> tmpl, conflicts |-> conflicts,
     prompted |-> prompted, answer |-> answer, err |-> err, exitCode |-> exitCode,
     existingContent |-> existingContent, devflowContent |-> devflowContent]

\* a call that has ended: returned, thrown, or exited the process
Ended(p) == p \in {"returned", "threw", "exited"}

\* the call that runs waits for mkdir or for git clone (or has ended) and
\* the other call goes on
Switch ==
    /\ routine = "initializeProject"
    /\ parked.pc # "none"
    /\ ~Ended(parked.pc)
    /\ pc \in {"mkdirTarget", "clone"} \/ Ended(pc)
    /\ parked' = Locals
    /\ pc' = parked.pc
    /\ tempPath' = parked.tempPath
    /\ tmpl' = parked.tmpl
    /\ conflicts' = parked.conflicts
    /\ prompted' = parked.prompted
    /\ answer' = parked.answer
    /\ err' = parked.err
    /\ exitCode' = parked.exitCode
    /\ existingContent' = parked.existingContent
    /\ devflowContent' = parked.devflowContent
    /\ UNCHANGED <<now, cmdVars, routine, fs, fs0, folder, replace, out, fsLog, faults,
                   remote, local, verDone, hasUpdate>>

\* a millisecond passes; the clock is followed while a call has yet to read it
Tick ==
    /\ routine = "initializeProject"
    /\ parked.pc # "none"
    /\ pc = "mkdirTarget" \/ parked.pc = "mkdirTarget"
    /\ now < MaxClock
    /\ now' = now + 1
    /\ UNCHANGED <<parked, cmdVars, routine, pc, fs, fs0, folder, tempPath, tmpl, conflicts,
                   prompted, answer, replace, err, exitCode, out, fsLog, existingContent,
                   devflowContent, faults, remote, local, verDone, hasUpdate>>

\* both calls are about to make their first call, in an empty directory
InitTwo ==
    /\ routine = "initializeProject"
    /\ pc = "mkdirTarget"
    /\ parked = [NoCall EXCEPT !.pc = "mkdirTarget"]
    /\ now = 0
    /\ folder = ""
    /\ fs = RootOnly
    /\ fs0 = fs
    /\ tempPath = <<>>
    /\ replace = FALSE
    /\ tmpl = EmptyFs
    /\ conflicts = <<>>
    /\ prompted = FALSE
    /\ answer = <<>>
    /\ err = "none"
    /\ exitCode = -1
    /\ out = <<>>
    /\ fsLog = <<>>
    /\ existingContent = <<>>
    /\ devflowContent = <<>>
    /\ faults = MaxFaults
    /\ VerIdle
    /\ CmdIdle

NextTwo ==
    \/ Switch
    \/ Tick
    \/ MkdirTarget
    \/ Clone
    \/ CheckConflicts
    \/ Question
    \/ AgentsAccess
    \/ AgentsMkdirParent
    \/ AgentsRm
    \/ AgentsMkdir
    \/ AgentsCopy
    \/ DevflowAccess
    \/ DevflowMkdirAgents
    \/ DevflowMkdirMemory
    \/ DevflowMkdirSessions
    \/ YamlAccess
    \/ YamlCp
    \/ YamlWrite
    \/ DocsAccess
    \/ DocsSourceAccess
    \/ DocsRm
    \/ DocsMkdir
    \/ DocsCopy
    \/ SnapshotsMkdir
    \/ GitignoreAccess
    \/ GitignoreTargetAccess
    \/ GitignoreReadExisting
    \/ GitignoreReadDevflow
    \/ GitignoreWrite
    \/ GitignoreCp
    \/ Cleanup
    \/ Report

SpecTwo == InitTwo /\ [][NextTwo]_vars

(***************************************************************************)
(* copyDirectory called alone, on every pair of a source and a target tree *)
(***************************************************************************)
CopySource == <<"source">>

CopyTarget == <<"target">>

\* what the source directory holds
CopySourceShapes == [file : BOOLEAN, sub : {"absent", "empty", "file", "deep"}]

CopySourceTree(shape) ==
    LET d == Mkdirp(RootOnly, CopySource)
        a == IF shape.file THEN PutFile(d, Append(CopySource, "f.md"), <<"a">>) ELSE d
        x == Join(CopySource, <<"sub", "x.md">>)
    IN  IF shape.sub = "absent" THEN a
        ELSE IF shape.sub = "empty" THEN Mkdirp(a, Append(CopySource, "sub"))
        ELSE IF shape.sub = "file" THEN PutFile(a, x, <<"b">>)
        ELSE PutFile(PutFile(a, x, <<"b">>),
                     Join(CopySource, <<"sub", "in", "y.md">>), <<"c">>)

\* what is at the target path before the call
CopyTargetShapes ==
    {"absent", "empty", "same", "extra", "subIsFile", "fileIsDir", "subHolds"}

CopyTargetTree(f, shape) ==
    IF shape = "absent" THEN f
    ELSE IF shape = "empty" THEN Mkdirp(f, CopyTarget)
    ELSE IF shape = "same" THEN PutFile(f, Append(CopyTarget, "f.md"), <<"z">>)
    ELSE IF shape = "extra" THEN PutFile(f, Append(CopyTarget, "keep.md"), <<"k">>)
    ELSE IF shape = "subIsFile" THEN PutFile(f, Append(CopyTarget, "sub"), <<"s">>)
    ELSE IF shape = "fileIsDir" THEN Mkdirp(f, Append(CopyTarget, "f.md"))
    ELSE PutFile(PutFile(f, Join(CopyTarget, <<"sub", "x.md">>), <<"z">>),
                 Join(CopyTarget, <<"sub", "keep.md">>), <<"k">>)

\* the file systems the call is made in; in the first the source is missing
CopyWorlds ==
    {CopyTargetTree(s, t) :
        s \in {RootOnly} \cup {CopySourceTree(shape) : shape \in CopySourceShapes},
        t \in CopyTargetShapes}

InitCopy ==
    /\ routine = "copyDirectory"
    /\ pc = "call"
    /\ fs \in CopyWorlds
    /\ fs0 = fs
    /\ folder = ""
    /\ tempPath = <<>>
    /\ tmpl = EmptyFs
    /\ conflicts = <<>>
    /\ prompted = FALSE
    /\ answer = <<>>
    /\ replace = FALSE
    /\ err = "none"
    /\ exitCode = -1
    /\ out = <<>>
    /\ fsLog = <<>>
    /\ existingContent = <<>>
    /\ devflowContent = <<>>
    /\ faults = 0
    /\ VerIdle
    /\ CmdIdle
    /\ TwoIdle

\* await copyDirectory(source, target)
CallCopyDirectory ==
    /\ routine = "copyDirectory"
    /\ CopyCall("call", CopySource, CopyTarget, "returned", <<>>, "threw", <<>>,
                "copyDirectory")

NextCopy == CallCopyDirectory

SpecCopy == InitCopy /\ [][NextCopy]_vars

(***************************************************************************)
(* Properties of the installers (checked under Spec)                       *)
(***************************************************************************)
\* the routine has left through return or throw
Left == pc \in {"returned", "threw"}

LastCall == fsLog[Len(fsLog)]

\* calls that create, delete or write
Mutating == {"mkdir", "rm", "cp", "writeFile", "copyDirectory"}

\* every call made so far succeeded, the clone included
NoCallFailed ==
    \A i \in 1..Len(fsLog) : fsLog[i].op \in Mutating \cup {"clone", "readFile"} => fsLog[i].ok

\* the top-level names initializeProject installs under
Protected == {<<".claude">>, DevflowPath, DocsPath, GitignorePath}

UnderProtected(p) == \E top \in Protected : IsPrefix(top, p)

\* C1: whenever initializeProject or setupWebFolder has returned or thrown
\* after its temp path was constructed, the last file-system call it made is
\* the recursive removal of that temp path.
C1_CleanupIsLastStep ==
    (Left /\ tempPath # <<>>) =>
        /\ Len(fsLog) > 0
        /\ LastCall.op = "rm"
        /\ LastCall.path = tempPath

\* a later step (mkdir docs/snapshots) threw and the routine has left
C1_Witness ==
    /\ routine = "initializeProject"
    /\ pc = "threw"
    /\ err = "mkdir"
    /\ tempPath # <<>>
    /\ Len(fsLog) > 3

\* C2: once the process has exited through the cancel path, the temp
\* workspace cloned under the target no longer exists.
C2_CancelRemovesTemp ==
    (pc = "exited" /\ prompted) => ~Exists(fs, tempPath)

\* the answer starts with "n" or "N"
StartsWithN(a) == Len(a) > 0 /\ a[1] \in {"n", "N"}

\* the answer starts with "y" or "Y"
StartsWithY(a) == Len(a) > 0 /\ a[1] \in {"y", "Y"}

\* C3: after an answer starting with "n" at the conflict prompt, nothing
\* under .claude, .devflow, docs or .gitignore has been created, deleted or
\* written, the cancellation message has been emitted, and the process has
\* exited with code 0.
C3_DeclineLeavesTargetAlone ==
    (prompted /\ StartsWithN(answer)) =>
        /\ \A p \in DOMAIN fs \cup DOMAIN fs0 :
              UnderProtected(p) => (p \in DOMAIN fs /\ p \in DOMAIN fs0 /\ fs[p] = fs0[p])
        /\ \A i \in 1..Len(fsLog) :
              fsLog[i].op \in Mutating => ~UnderProtected(fsLog[i].path)
        /\ out[Len(out)] = Msg("error", "Initialization cancelled.")
        /\ pc = "exited"
        /\ exitCode = 0

\* the user typed "n" and the process has exited
C3_Witness ==
    /\ prompted
    /\ answer = <<"n">>
    /\ pc = "exited"
    /\ Exists(fs0, DocsPath)

\* the agents sub-step, the first of the copy steps, has been entered
CopyStepsRun ==
    \E i \in 1..Len(fsLog) : fsLog[i].op = "access" /\ fsLog[i].path = Join(tempPath, AgentsPath)

\* C4 as stated: the installation is abandoned exactly when the answer starts
\* with "n"; every other answer continues.
C4_AbandonOnlyOnNo ==
    prompted => ((pc = "exited") <=> StartsWithN(answer))

\* C4 amended: the installation continues exactly when the answer starts with
\* "y" (case-insensitive), and then the copy steps run; every other answer,
\* the empty string included, abandons it with exit code 0.
C4_ContinueOnlyOnYes ==
    prompted =>
        /\ (pc = "exited") <=> ~StartsWithY(answer)
        /\ (pc = "exited") => exitCode = 0
        /\ (StartsWithY(answer) /\ pc # "agentsAccess") => CopyStepsRun

\* the empty answer abandoned the installation
C4_Witness ==
    /\ prompted
    /\ answer = <<>>
    /\ pc = "exited"

\* checkConflicts has run
ConflictsChecked ==
    /\ routine = "initializeProject"
    /\ \E i \in 1..Len(fsLog) : fsLog[i].op = "access" /\ fsLog[i].path = DevflowPath

\* the prompt is on screen or has been answered
PromptShown == pc = "question" \/ prompted

Range(q) == {q[i] : i \in 1..Len(q)}

ExistingOf(paths) == {p \in paths : Exists(fs0, p)}

\* C5 as stated: the conflict set is the set of the four InstallPlan paths
\* that exist at the target, and the prompt is shown iff it is non-empty.
C5_ConflictsOverInstallPlan ==
    ConflictsChecked =>
        /\ Range(conflicts) = ExistingOf({AgentsPath, DevflowPath, DocsPath, GitignorePath})
        /\ PromptShown <=> ExistingOf({AgentsPath, DevflowPath, DocsPath, GitignorePath}) # {}

\* C5 amended: the conflict set is the set of the three folders
\* .claude/commands/agents, .devflow and docs that exist at the target
\* before installation (.gitignore is not checked), each reported once, and
\* the prompt is shown iff that set is non-empty.
C5_ConflictsOverFolders ==
    /\ ConflictsChecked =>
          /\ Range(conflicts) = ExistingOf({AgentsPath, DevflowPath, DocsPath})
          /\ Len(conflicts) = Cardinality(Range(conflicts))
          /\ PromptShown <=> ExistingOf({AgentsPath, DevflowPath, DocsPath}) # {}
    /\ PromptShown => ConflictsChecked

\* a target holding only .gitignore and docs: docs alone is reported
C5_Witness ==
    /\ ConflictsChecked
    /\ Exists(fs0, GitignorePath)
    /\ conflicts = <<DocsPath>>
    /\ pc = "question"

\* the calls of the merge step: the reads, the write and the copy of .gitignore
MergeCalls ==
    {i \in 1..Len(fsLog) :
        /\ fsLog[i].op \in {"readFile", "writeFile", "cp"}
        /\ fsLog[i].path \in {GitignorePath, Join(tempPath, GitignorePath)}}

\* the calls that wrote the target's .gitignore
IgnoreWrites ==
    {i \in MergeCalls : fsLog[i].op \in {"writeFile", "cp"} /\ fsLog[i].path = GitignorePath}

\* the merge step is over, each of its calls having succeeded, for a
\* template that provides a .gitignore
MergeDone ==
    /\ routine = "initializeProject"
    /\ pc \in {"cleanup", "report", "returned"}
    /\ err = "none"
    /\ IsFile(tmpl, GitignorePath)
    /\ \A i \in MergeCalls : fsLog[i].ok

\* C6: after the merge step, for a template that provides a .gitignore: a
\* target that had none holds a copy of the template's; a target that had
\* one with content E holds E, a newline, then the template's content; in
\* both cases exactly one write to the target file was made.
C6_GitignoreMerge ==
    MergeDone =>
        /\ IsFile(fs, GitignorePath)
        /\ fs[GitignorePath].data =
              IF Exists(fs0, GitignorePath)
              THEN fs0[GitignorePath].data \o <<"\n">> \o tmpl[GitignorePath].data
              ELSE tmpl[GitignorePath].data
        /\ Cardinality(IgnoreWrites) = 1

\* the target's .gitignore held "e" and has been merged
C6_Witness ==
    /\ MergeDone
    /\ Exists(fs0, GitignorePath)
    /\ fs0[GitignorePath].data = <<"e">>
    /\ fs[GitignorePath].data = <<"e", "\n", "t">>
    /\ pc = "returned"

\* a clone holding every subtree the installer needs
HasAllSubtrees(t) ==
    /\ IsDir(t, AgentsPath)
    /\ IsDir(t, DevflowPath)
    /\ IsDir(t, DocsPath)
    /\ IsFile(t, GitignorePath)

\* the target was empty (or did not exist) before the routine started
EmptyTarget == DOMAIN fs0 \subseteq {<<>>}

\* C7: when initializeProject returns from a run against an empty target in
\* which the clone succeeded with all required subtrees and no call failed,
\* the four InstallPlan entries exist, the temp workspace does not, and the
\* last message is the success message, naming the folder argument if any.
C7_EmptyTargetInstall ==
    (/\ routine = "initializeProject"
     /\ pc = "returned"
     /\ EmptyTarget
     /\ HasAllSubtrees(tmpl)
     /\ NoCallFailed) =>
        /\ IsDir(fs, AgentsPath)
        /\ IsDir(fs, DevflowPath)
        /\ IsDir(fs, DocsPath)
        /\ IsFile(fs, GitignorePath)
        /\ \A p \in DOMAIN fs : ~IsPrefix(tempPath, p)
        /\ out[Len(out)] = MsgIn("success", "DevFlow initialized", folder)

\* such a run, given the folder argument, has returned
C7_Witness ==
    /\ routine = "initializeProject"
    /\ pc = "returned"
    /\ fs0 = EmptyFs
    /\ folder = "my-app"
    /\ HasAllSubtrees(tmpl)
    /\ NoCallFailed
    /\ IsFile(fs, Append(AgentsPath, "architect.md"))

\* the paths of f at or below docs
DocsOf(f) == {p \in DOMAIN f : IsPrefix(DocsPath, p)}

\* the user accepted the conflict prompt
Accepted == prompted /\ StartsWithY(answer)

\* C8: when the target already held docs and the user accepted the prompt,
\* every entry docs held is still there unchanged, docs holds nothing else
\* but the snapshots folder the installer creates (so nothing of the
\* template's docs), and once the routine has returned from a run whose
\* clone provided .devflow and in which no call failed, .devflow exists
\* with its three folders and project.yaml.
C8_ExistingDocsKept ==
    (routine = "initializeProject" /\ Exists(fs0, DocsPath) /\ Accepted) =>
        /\ \A p \in DocsOf(fs0) : p \in DOMAIN fs /\ fs[p] = fs0[p]
        /\ DocsOf(fs) \subseteq DocsOf(fs0) \cup {Append(DocsPath, "snapshots")}
        /\ \A i \in 1..Len(fsLog) :
              fsLog[i].op \in {"rm", "cp", "writeFile", "copyDirectory"}
                  => ~IsPrefix(DocsPath, fsLog[i].path)
        /\ (pc = "returned" /\ IsDir(tmpl, DevflowPath) /\ NoCallFailed) =>
              /\ IsDir(fs, Append(DevflowPath, "agents"))
              /\ IsDir(fs, Append(DevflowPath, "memory"))
              /\ IsDir(fs, Append(DevflowPath, "sessions"))
              /\ IsFile(fs, Append(DevflowPath, "project.yaml"))

\* a target with docs and no .devflow: docs kept, .devflow created, while the
\* clone had docs of its own to offer
C8_Witness ==
    /\ routine = "initializeProject"
    /\ Accepted
    /\ pc = "returned"
    /\ Exists(fs0, DocsPath)
    /\ ~Exists(fs0, DevflowPath)
    /\ IsDir(tmpl, DocsPath)
    /\ IsDir(fs, DevflowPath)
    /\ fs[Append(DocsPath, "notes.md")] = FileNode(<<"k">>)

(***************************************************************************)
(* Properties of the version comparator (checked under SpecVer)            *)
(***************************************************************************)
\* C9: isNewerVersion(a, b) and isNewerVersion(b, a) are never both true, and
\* isNewerVersion(a, a) is false, for all dotted-numeric a and b.
C9_NewerIsAsymmetric ==
    verDone =>
        /\ ~(hasUpdate /\ isNewerVersion(local, remote))
        /\ (remote = local => ~hasUpdate)

\* a pair of different segment counts for which the result is true
C9_Witness ==
    /\ verDone
    /\ hasUpdate
    /\ Len(VersionParts(remote)) < Len(VersionParts(local))

\* parts padded with trailing zeros to n components
Padded(parts, n) == [i \in 1..n |-> IF i <= Len(parts) THEN parts[i] ELSE 0]

\* strict lexicographic greater-than of two integer sequences of one length
LexGreater(x, y) ==
    \E i \in 1..Len(x) :
        /\ x[i] > y[i]
        /\ \A j \in 1..(i - 1) : x[j] = y[j]

\* C10: isNewerVersion(remote, local) is the strict lexicographic
\* greater-than of the two part sequences padded with zeros to the longer
\* length.
C10_NewerIsPaddedLexGreater ==
    verDone =>
        LET n == Max(Len(VersionParts(remote)), Len(VersionParts(local)))
        IN  hasUpdate <=> LexGreater(Padded(VersionParts(remote), n),
                                     Padded(VersionParts(local), n))

\* "1.0.1" against "1.0" is newer
C10_Witness ==
    /\ verDone
    /\ remote = <<"1", ".", "0", ".", "1">>
    /\ local = <<"1", ".", "0">>
    /\ hasUpdate

(***************************************************************************)
(* Properties of checkDependencies (checked under SpecDeps)                *)
(***************************************************************************)
\* C11: checkDependencies(true) makes no existence probe, no version probe
\* and no OS detection, emits no status line, and returns hasErrors = false,
\* both missing lists empty, osId = "unknown" and osName = "Unknown".
C11_SkipProbesNothing ==
    (routine = "checkDependencies" /\ skipDeps) =>
        /\ fsLog = <<>>
        /\ out = <<>>
        /\ pc = "returned" =>
              depsResult = [hasErrors |-> FALSE, missingCli |-> <<>>, missingWeb |-> <<>>,
                            osId |-> "unknown", osName |-> "Unknown"]

\* the skipped check has returned on a machine that lacks git and make
C11_Witness ==
    /\ routine = "checkDependencies"
    /\ skipDeps
    /\ pc = "returned"
    /\ ~machine.git.found
    /\ ~machine.make.found
    /\ machine.os.platform = "linux"

\* C12: every report checkDependencies returns, whatever the probes find and
\* whether the check is skipped or not, has hasErrors true exactly when
\* missingCli or missingWeb is non-empty.
C12_HasErrorsIffMissing ==
    (routine = "checkDependencies" /\ pc = "returned") =>
        (depsResult.hasErrors <=>
            (Len(depsResult.missingCli) > 0 \/ Len(depsResult.missingWeb) > 0))

\* a report whose only missing entry is a web tool
C12_Witness ==
    /\ routine = "checkDependencies"
    /\ pc = "returned"
    /\ ~skipDeps
    /\ depsResult.missingCli = <<>>
    /\ depsResult.missingWeb = <<"nodejs-upgrade">>
    /\ depsResult.hasErrors

(***************************************************************************)
(* Properties of startIde and updateIde (checked under SpecIde)            *)
(***************************************************************************)
\* the calls that clone, delete, create or write
Changing == {"clone", "rm", "mkdir", "cp", "copyDirectory", "writeFile"}

\* remote is strictly newer than local, part by part with missing parts zero
StrictlyNewer(r, l) ==
    LET n == Max(Len(VersionParts(r)), Len(VersionParts(l)))
    IN  LexGreater(Padded(VersionParts(r), n), Padded(VersionParts(l), n))

\* the version check settled without an update: a version is unknown, or
\* the local one is not older than the remote one
NoUpdateFound ==
    /\ verDone
    /\ \/ local.state = "null"
       \/ remote.state = "null"
       \/ ~StrictlyNewer(remote.version, local.version)

UpToDateTexts == {"DevFlow IDE is already up to date (version )",
                  "DevFlow IDE is already up to date"}

\* C13: when the web subtree exists and the local version is not older than
\* the remote one, or one of the two versions is undeterminable, updateIde
\* reports "already up to date" and makes no clone, no deletion of the web
\* subtree and no file write.
C13_UpToDateChangesNothing ==
    (routine = "updateIde" /\ Exists(fs0, WebPath)) =>
        /\ ~verDone => (fs = fs0 /\ \A i \in 1..Len(fsLog) : fsLog[i].op \notin Changing)
        /\ NoUpdateFound =>
              /\ pc = "returned"
              /\ Len(out) = 1
              /\ out[1].level = "success"
              /\ out[1].text \in UpToDateTexts
              /\ fs = fs0
              /\ \A i \in 1..Len(fsLog) : fsLog[i].op \notin Changing

\* "1.0" installed and "1" published: equal once padded
C13_Witness ==
    /\ routine = "updateIde"
    /\ pc = "returned"
    /\ local = Known(<<"1", ".", "0">>)
    /\ remote = Known(<<"1">>)
    /\ verDone

\* the web subtree of a file system
WebOf(f) == [p \in {q \in DOMAIN f : IsPrefix(WebPath, q)} |-> f[p]]

\* positions of the log where the call op on path was made with outcome ok
CallsAt(op, path, ok) ==
    {i \in 1..Len(fsLog) : fsLog[i] = Logged(Call(op, path), ok)}

UpdatedMessage == Msg("success", "DevFlow IDE updated successfully")

C15_StartKeepsWeb ==
    (routine = "startIde" /\ Exists(fs0, WebPath)) =>
        /\ \A i \in 1..Len(fsLog) : fsLog[i].op \notin Changing
        /\ \A p \in DOMAIN fs0 : p \in DOMAIN fs /\ fs[p] = fs0[p]
        /\ tempPath = <<>>
        /\ (verDone /\ local.state = "known" /\ remote.state = "known"
              /\ StrictlyNewer(remote.version, local.version)) =>
              \E i \in 1..Len(out) :
                  out[i].level = "warn" /\ out[i].text = "New version available: "

\* a newer version was announced and the server has run and stopped
C15_Witness ==
    /\ routine = "startIde"
    /\ pc = "returned"
    /\ hasUpdate
    /\ local = Known(<<"1", ".", "0">>)
    /\ remote = Known(<<"1", ".", "1">>)

\* the local manifest as it was before the run
LocalManifest0 == IF IsFile(fs0, packageJsonPath) THEN fs0[packageJsonPath].data ELSE <<>>

\* C18: the version check never raises to its caller: a network error, a
\* non-success status, a missing version field, an unreadable or unparsable
\* local manifest each give the null version, and hasUpdate is true only
\* when both versions are known and the remote one is strictly newer.
C18_VersionCheckNeverRaises ==
    (routine \in {"startIde", "updateIde"} /\ Exists(fs0, WebPath)) =>
        /\ (remote # Pending /\ (~response.arrived \/ ~response.ok
                                  \/ response.body \in {BrokenManifest, EmptyManifest}))
              => remote = NullVersion
        /\ (local # Pending /\ (CallsAt("readFile", packageJsonPath, FALSE) # {}
                                 \/ LocalManifest0 \in {BrokenManifest, EmptyManifest}))
              => local = NullVersion
        /\ ~verDone => (pc \in {"pathExists", "checkForUpdate"} /\ err = "none")
        /\ (verDone /\ hasUpdate) =>
              /\ local.state = "known"
              /\ remote.state = "known"
              /\ StrictlyNewer(remote.version, local.version)

\* the fetch was rejected while the local version is known
C18_Witness ==
    /\ verDone
    /\ response.fetched
    /\ ~response.arrived
    /\ local.state = "known"
    /\ ~hasUpdate

(***************************************************************************)
(* Properties of the error handlers (checked under SpecErr)                *)
(***************************************************************************)
\* the text holds the letters g, i, t in a row
MentionsGit(text) ==
    \E i \in 1..(Len(text) - 2) : text[i] = "g" /\ text[i + 1] = "i" /\ text[i + 2] = "t"

\* the error is an object whose code is ENOENT and whose message is a
\* string mentioning git
EnoentOfGit ==
    /\ error.kind = "object"
    /\ error.code = "ENOENT"
    /\ error.hasMessage
    /\ error.messageIsString
    /\ MentionsGit(error.message)

\* the text of the error: its message when it is an object with one, its
\* rendering as a string otherwise
TextOfError ==
    IF error.kind = "object" /\ error.hasMessage THEN error.message ELSE error.str

\* C16: handleInitError and handleIdeError end the process with exit code 1
\* for every error value; the "Git is not installed or not found in PATH."
\* message is emitted exactly when the error carries code ENOENT and a
\* message mentioning git, and in every other case the handler's generic
\* message with the error's text is emitted.
C16_HandlersExitOne ==
    (routine \in {"handleInitError", "handleIdeError"} /\ pc = "exited") =>
        /\ exitCode = 1
        /\ Len(out) = 1
        /\ out[1].level = "error"
        /\ (out[1].text = "Git is not installed or not found in PATH.") <=> EnoentOfGit
        /\ ~EnoentOfGit =>
              /\ out[1].text = (IF routine = "handleInitError"
                                THEN "Error initializing project: "
                                ELSE "Error starting IDE: ")
              /\ out[1].arg = TextOfError

\* an ENOENT whose message does not mention git went through handleIdeError
C16_Witness ==
    /\ routine = "handleIdeError"
    /\ pc = "exited"
    /\ error.kind = "object"
    /\ error.code = "ENOENT"
    /\ error.message = <<"x", "g", "i">>
    /\ error.messageIsString

(***************************************************************************)
(* Properties of initializeProject's failure paths (checked under Spec)    *)
(***************************************************************************)
\* the call op on path was made and failed; was made at all
Failed(op, path) ==
    \E i \in 1..Len(fsLog) : fsLog[i].op = op /\ fsLog[i].path = path /\ ~fsLog[i].ok

Made(op, path) == \E i \in 1..Len(fsLog) : fsLog[i].op = op /\ fsLog[i].path = path

\* c is a call of the agents sub-step whose failure goes to the sub-step's catch
InAgents(c) ==
    \/ c.op = "access" /\ c.path = Join(InitTempPath, AgentsPath)
    \/ c.op = "mkdir" /\ c.path \in {Parent(AgentsPath), AgentsPath}
    \/ c.op = "copyDirectory" /\ c.path = AgentsPath

\* c is a call of the .devflow sub-step whose failure goes to the sub-step's catch
InDevflow(c) ==
    \/ c.op = "access" /\ c.path = Join(InitTempPath, DevflowPath)
    \/ c.op = "mkdir" /\ c.path \in {Append(DevflowPath, name) :
                                          name \in {"agents", "memory", "sessions"}}
    \/ c.op = "writeFile" /\ c.path = Append(DevflowPath, "project.yaml")

\* c is a call of the docs sub-step whose failure goes to the sub-step's catch
InDocs(c) ==
    \/ c.op = "access" /\ c.path = Join(InitTempPath, DocsPath)
    \/ c.op = "mkdir" /\ c.path = DocsPath
    \/ c.op = "copyDirectory" /\ c.path = DocsPath

SnapshotsPath == Append(DocsPath, "snapshots")

\* c is a call outside the three sub-steps whose failure is thrown
Outside(c) ==
    \/ c.op = "mkdir" /\ c.path \in {<<>>, SnapshotsPath}
    \/ c.op = "clone"

Warned(text) == \E i \in 1..Len(out) : out[i] = Msg("warn", text)

\* the call after the i-th of the log is op on path: made already, or due at position at
ThenComes(i, op, path, at) ==
    IF i = Len(fsLog) THEN pc = at
    ELSE fsLog[i + 1].op = op /\ fsLog[i + 1].path = path

\* C17: a failure in one of the three sub-steps of the selective install
\* (agents, .devflow, docs) is caught there and reported as a warning: the
\* sub-steps after it still run, the .gitignore merge still runs, and
\* initializeProject does not throw because of it.
C17_SubStepFailureIsLocal ==
    routine = "initializeProject" =>
        /\ \A i \in 1..Len(fsLog) :
              /\ (~fsLog[i].ok /\ InAgents(fsLog[i])) =>
                    /\ Warned("Could not copy .claude/commands/agents")
                    /\ ThenComes(i, "access", Join(InitTempPath, DevflowPath), "devflowAccess")
              /\ (~fsLog[i].ok /\ InDevflow(fsLog[i])) =>
                    /\ Warned("Could not copy .devflow structure")
                    /\ ThenComes(i, "access", DocsPath, "docsAccess")
              /\ (~fsLog[i].ok /\ InDocs(fsLog[i])) =>
                    /\ Warned("Could not copy docs/ folder")
                    /\ ThenComes(i, "mkdir", SnapshotsPath, "snapshotsMkdir")
              /\ (fsLog[i].ok /\ fsLog[i].op = "mkdir" /\ fsLog[i].path = SnapshotsPath) =>
                    ThenComes(i, "access", Join(InitTempPath, GitignorePath), "gitignoreAccess")
        /\ pc = "threw" => \E i \in 1..Len(fsLog) : ~fsLog[i].ok /\ Outside(fsLog[i])

\* the copy of the agents and the mkdir of docs failed, the merge wrote
\* .gitignore and initializeProject returned
C17_Witness ==
    /\ routine = "initializeProject"
    /\ pc = "returned"
    /\ Failed("copyDirectory", AgentsPath)
    /\ Failed("mkdir", DocsPath)
    /\ Made("writeFile", GitignorePath)
    /\ ~Failed("writeFile", GitignorePath)
    /\ Exists(fs, Append(DevflowPath, "project.yaml"))

\* C20: when the clone of initializeProject fails the error goes to the
\* caller: no conflict check, no prompt, no copy sub-step and no .gitignore
\* merge runs, "DevFlow initialized" is never emitted, and the removal of
\* the temp workspace is still attempted.
C20_CloneFailureIsFatal ==
    (routine = "initializeProject" /\ Failed("clone", InitTempPath)) =>
        /\ pc \in {"cleanup", "threw"}
        /\ err = "clone"
        /\ conflicts = <<>>
        /\ ~prompted
        /\ \A i \in 1..Len(fsLog) :
              \/ fsLog[i].op = "mkdir" /\ fsLog[i].path = <<>>
              \/ fsLog[i].op = "clone"
              \/ fsLog[i].op = "rm" /\ fsLog[i].path = InitTempPath
        /\ \A i \in 1..Len(out) : out[i].text # "DevFlow initialized"
        /\ \A p \in DOMAIN fs0 : p \in DOMAIN fs /\ fs[p] = fs0[p]
        /\ pc = "threw" => Made("rm", InitTempPath)

\* the clone failed in a target that holds docs, leaving its folder behind,
\* and the removal of the temp workspace failed as well
C20_Witness ==
    /\ routine = "initializeProject"
    /\ pc = "threw"
    /\ err = "clone"
    /\ Exists(fs0, DocsPath)
    /\ Failed("rm", InitTempPath)
    /\ Exists(fs, InitTempPath)

(***************************************************************************)
(* Properties of the init command (checked under SpecCli)                  *)
(***************************************************************************)
\* initializeProject has been called: its first call is due or was made
InitializeProjectCalled == pc = "mkdirTarget" \/ Made("mkdir", <<>>)

\* the continue prompt has been shown and answered
ContinueAsked == ContinuePrompt \in Range(out)

\* the answer to the continue prompt starts with y or Y
SaidYes == Len(depsAnswer) > 0 /\ depsAnswer[1] \in {"y", "Y"}

\* C19: in the init command initializeProject is called only if the
\* dependency report has no errors or the answer to the continue prompt
\* starts with "y" in either case; when the report has errors and the user
\* declines, the process exits with code 0 and the target directory is
\* neither created nor cloned into; with --skip-deps the continue prompt is
\* never shown.
C19_GateBeforeInit ==
    routine = "initCommand" =>
        /\ InitializeProjectCalled =>
              \/ ~depsResult.hasErrors
              \/ ContinueAsked /\ SaidYes
        /\ (depsResult.hasErrors /\ ContinueAsked /\ ~SaidYes) =>
              /\ pc = "exited"
              /\ exitCode = 0
              /\ fs = fs0
              /\ \A i \in 1..Len(fsLog) : fsLog[i].op \notin Changing
        /\ skipDeps => ~ContinueAsked
        /\ ContinueAsked => depsResult.hasErrors

\* git is missing, the user answered "No": the process has exited with 0
\* and the folder named on the command line was not created
C19_Witness ==
    /\ routine = "initCommand"
    /\ pc = "exited"
    /\ exitCode = 0
    /\ depsResult.missingCli = <<"git">>
    /\ depsAnswer = <<"N", "o">>
    /\ folder = "my-app"
    /\ fs = EmptyFs

(***************************************************************************)
(* Properties of the cleanup (checked under Spec)                          *)
(***************************************************************************)
\* c is a call made before the finally block whose failure the routine throws
ThrownCall(c) ==
    IF routine = "setupWebFolder"
    THEN \/ c.op = "clone"
         \/ c.op \in {"rm", "mkdir", "copyDirectory"} /\ c.path = WebPath
    ELSE Outside(c)

\* C21: a failure of the removal of the temp workspace is swallowed: the
\* routine leaves as the earlier steps decided.  It throws exactly when an
\* earlier step threw, and then that step's error is the one in flight; it
\* returns otherwise, having reported success; the process is not ended.
C21_CleanupFailureSwallowed ==
    (/\ routine \in {"initializeProject", "setupWebFolder"}
     /\ tempPath # <<>>
     /\ Failed("rm", tempPath)) =>
        /\ pc \in {"report", "returned", "threw"}
        /\ exitCode = -1
        /\ pc = "threw" <=>
              \E i \in 1..Len(fsLog) : ~fsLog[i].ok /\ ThrownCall(fsLog[i])
        /\ pc = "threw" =>
              \E i \in 1..Len(fsLog) :
                  ~fsLog[i].ok /\ ThrownCall(fsLog[i]) /\ fsLog[i].op = err
        /\ pc # "threw" => err = "none"
        /\ (pc = "returned" /\ routine = "initializeProject") =>
              out[Len(out)] = MsgIn("success", "DevFlow initialized", folder)
        /\ (pc = "returned" /\ routine = "setupWebFolder") =>
              \E i \in 1..Len(out) : out[i] = Msg("success", "Web folder installed")

\* the installation went through, the removal of the temp workspace failed
\* and left it behind, and initializeProject returned with its report
C21_Witness ==
    /\ routine = "initializeProject"
    /\ pc = "returned"
    /\ Failed("rm", tempPath)
    /\ Exists(fs, tempPath)
    /\ IsFile(fs, Append(AgentsPath, "architect.md"))
    /\ out[Len(out)].text = "DevFlow initialized"

(***************************************************************************)
(* Properties of the probes of checkDependencies (checked under SpecDeps)  *)
(***************************************************************************)
Has(list, x) == \E i \in 1..Len(list) : list[i] = x

\* checkDependencies(false) has made its Node.js probe
NodeProbed ==
    /\ routine = "checkDependencies"
    /\ ~skipDeps
    /\ pc \in {"checkPython", "checkGcc", "checkMake", "depsReturn", "returned"}

\* `node --version` printed a text whose first run of digits was parsed
NodeMajorParsed == Truthy(machine.node) /\ MatchDigits(machine.node.text) # <<>>

NodeMajor == parseInt(MatchDigits(machine.node.text))

\* C22: after the Node.js probe of checkDependencies(false), a node that
\* does not resolve gives "nodejs" and not "nodejs-upgrade"; a node whose
\* parsed major version is below 18 gives "nodejs-upgrade" and not "nodejs";
\* a major version of 18 or more gives neither; the two are never both
\* reported, and the report returned carries the same list.
C22_NodeFindings ==
    NodeProbed =>
        /\ ~machine.node.found =>
              Has(missingWeb, "nodejs") /\ ~Has(missingWeb, "nodejs-upgrade")
        /\ (machine.node.found /\ NodeMajorParsed /\ NodeMajor < 18) =>
              Has(missingWeb, "nodejs-upgrade") /\ ~Has(missingWeb, "nodejs")
        /\ (machine.node.found /\ NodeMajorParsed /\ NodeMajor >= 18) =>
              ~Has(missingWeb, "nodejs-upgrade") /\ ~Has(missingWeb, "nodejs")
        /\ ~(Has(missingWeb, "nodejs") /\ Has(missingWeb, "nodejs-upgrade"))
        /\ machine.node = Prints(<<"v", "1", "6">>) => Has(missingWeb, "nodejs-upgrade")
        /\ machine.node = Prints(<<"1", "8">>) => ~Has(missingWeb, "nodejs-upgrade")
        /\ pc = "returned" => depsResult.missingWeb = missingWeb

\* node prints v16 on a machine that has everything else: the report names
\* the upgrade alone
C22_Witness ==
    /\ NodeProbed
    /\ pc = "returned"
    /\ machine.node = Prints(<<"v", "1", "6">>)
    /\ machine.python3.found
    /\ machine.gcc.found
    /\ machine.make.found
    /\ depsResult.missingWeb = <<"nodejs-upgrade">>
    /\ depsResult.hasErrors

\* checkDependencies(false) has made its Python probe
PythonProbed ==
    /\ routine = "checkDependencies"
    /\ ~skipDeps
    /\ pc \in {"checkGcc", "checkMake", "depsReturn", "returned"}

\* `python --version` printed a text in which "Python <digits>" was found
PythonMajorParsed == Truthy(machine.python) /\ MatchPython(machine.python.text) # <<>>

PythonMajor == parseInt(MatchPython(machine.python.text))

\* C23: after the Python probe of checkDependencies(false): when python3
\* resolves, "python3" is not reported missing and python is not probed;
\* otherwise "python3" is reported missing in every case but the one where
\* python resolves and its version is determined to be 3 or higher, so also
\* when python resolves and its version cannot be obtained or parsed.
C23_PythonFindings ==
    PythonProbed =>
        /\ machine.python3.found =>
              /\ ~Has(missingWeb, "python3")
              /\ ~Made("commandExists", <<"python">>)
        /\ ~machine.python3.found =>
              (Has(missingWeb, "python3") <=>
                  ~(machine.python.found /\ PythonMajorParsed /\ PythonMajor >= 3))

OsIds == {"macos", "windows", "ubuntu", "fedora", "rhel", "arch", "linux"}

\* the markers of each distribution family
FamilyMarkers ==
    [f \in {"ubuntu", "fedora", "rhel", "arch"} |->
        IF f = "ubuntu" THEN {"ubuntu", "debian", "linuxmint", "pop"}
        ELSE IF f = "fedora" THEN {"fedora"}
        ELSE IF f = "rhel" THEN {"rhel", "centos", "rocky", "almalinux"}
        ELSE {"arch", "manjaro"}]

\* the families of which the release text holds a marker
FamiliesIn(text) ==
    {f \in DOMAIN FamilyMarkers : \E i \in 1..Len(text) : text[i] \in FamilyMarkers[f]}

\* C24: detectOS never fails: whatever the platform and whatever the probe
\* of the release file gives (an error, an empty text, a text without
\* marker), checkDependencies goes on with an id among macos, windows,
\* ubuntu, fedora, rhel, arch and linux; off darwin and win32 a failed probe
\* or a text without marker gives "linux", and a text with markers of
\* exactly one family gives that family's id.
C24_DetectOsNeverFails ==
    (routine = "checkDependencies" /\ ~skipDeps /\ pc # "checkDependencies") =>
        /\ osInfo.id \in OsIds
        /\ machine.os.platform = "darwin" => osInfo.id = "macos"
        /\ machine.os.platform = "win32" => osInfo.id = "windows"
        /\ machine.os.platform \notin {"darwin", "win32"} =>
              /\ (~machine.os.ran \/ FamiliesIn(machine.os.text) = {}) =>
                    osInfo = [id |-> "linux", name |-> "Linux"]
              /\ \A f \in DOMAIN FamilyMarkers :
                    (machine.os.ran /\ FamiliesIn(machine.os.text) = {f}) => osInfo.id = f
        /\ pc = "returned" => depsResult.osId = osInfo.id

\* the cat of the release files failed on a Linux host: generic Linux, and
\* the check went on to its report
C24_Witness ==
    /\ routine = "checkDependencies"
    /\ pc = "returned"
    /\ machine.os = [platform |-> "linux", ran |-> FALSE, text |-> <<>>]
    /\ depsResult.osId = "linux"
    /\ depsResult.osName = "Linux"

(***************************************************************************)
(* Properties of startIde's commands and of checkForUpdate (checked under  *)
(* SpecIde)                                                                *)
(***************************************************************************)
\* the i-th call of the log is op on path with outcome ok
IsCall(i, op, path, ok) == fsLog[i].op = op /\ fsLog[i].path = path /\ fsLog[i].ok = ok

\* a step of setupWebFolder before its finally block failed
SetupFailed ==
    \E i \in 1..Len(fsLog) :
        /\ ~fsLog[i].ok
        /\ \/ fsLog[i].op = "clone"
           \/ fsLog[i].op \in {"rm", "mkdir", "copyDirectory"} /\ fsLog[i].path = WebPath

\* C25: startIde launches the development server only once the web subtree
\* exists and, node_modules having been absent, only after npm install
\* exited with 0; when setupWebFolder or npm install fails the server is
\* never launched and startIde rejects; a failing development server makes
\* startIde reject.
C25_ServerAfterInstall ==
    routine = "startIde" =>
        /\ \A i \in 1..Len(fsLog) :
              fsLog[i].op = "npm run dev" =>
                  /\ IsDir(fs, WebPath)
                  /\ IsDir(fs, nodeModulesPath)
                  /\ \E j \in 1..(i - 1) :
                        \/ IsCall(j, "access", nodeModulesPath, TRUE)
                        \/ /\ IsCall(j, "npm install", WebPath, TRUE)
                           /\ \E k \in 1..(j - 1) : IsCall(k, "access", nodeModulesPath, FALSE)
                  /\ ~SetupFailed
                  /\ ~Failed("npm install", WebPath)
        /\ pc = "runDev" => IsDir(fs, WebPath) /\ ~SetupFailed /\ ~Failed("npm install", WebPath)
        /\ Failed("npm install", WebPath) =>
              /\ pc = "threw"
              /\ ~Made("npm run dev", WebPath)
        /\ SetupFailed =>
              /\ pc \in {"webCleanup", "threw"}
              /\ ~Made("npm install", WebPath)
              /\ ~Made("npm run dev", WebPath)
        /\ Failed("npm run dev", WebPath) => pc = "threw"
        /\ pc = "returned" => (Made("npm run dev", WebPath) /\ ~Failed("npm run dev", WebPath))

\* no web folder at first: it was set up, npm install succeeded, the server
\* ran and exited with a failure, and startIde rejected
C25_Witness ==
    /\ routine = "startIde"
    /\ ~Exists(fs0, WebPath)
    /\ Made("npm install", WebPath)
    /\ ~Failed("npm install", WebPath)
    /\ Failed("npm run dev", WebPath)
    /\ pc = "threw"
    /\ IsFile(fs, packageJsonPath)

\* the position of the first call op of the log, 0 when there is none
FirstCall(op) ==
    IF \E i \in 1..Len(fsLog) : fsLog[i].op = op
    THEN CHOOSE i \in 1..Len(fsLog) :
             fsLog[i].op = op /\ \A j \in 1..(i - 1) : fsLog[j].op # op
    ELSE 0

\* C26: in checkForUpdate the read of the local manifest and the fetch of
\* the remote one are both under way before either completes, the
\* comparison is made once both have completed, and the result depends on
\* the manifest and the response alone, not on which completed first: the
\* local version is that of the manifest unless its read failed, the remote
\* one that of the response, whatever became of the other, and hasUpdate
\* compares the two.
C26_CheckIsOrderFree ==
    (routine \in {"startIde", "updateIde"} /\ Exists(fs0, WebPath)) =>
        /\ verDone =>
              /\ local # Pending
              /\ remote # Pending
              /\ FirstCall("readFile") > 0
              /\ FirstCall("fetch") > 0
        /\ (pc = "checkForUpdate" /\ ~verDone) =>
              /\ (local = Pending <=> FirstCall("readFile") = 0)
              /\ (remote = Pending <=> FirstCall("fetch") = 0)
        /\ local # Pending =>
              local = (IF Failed("readFile", packageJsonPath) THEN NullVersion
                       ELSE VersionOf(LocalManifest0))
        /\ remote # Pending => remote = RemoteVersionOf(response)
        /\ verDone =>
              (hasUpdate <=> (/\ local.state = "known"
                              /\ remote.state = "known"
                              /\ StrictlyNewer(remote.version, local.version)))

\* the fetch completed first and was rejected, the read completed second:
\* the local version is reported all the same
C26_Witness ==
    /\ routine = "startIde"
    /\ verDone
    /\ FirstCall("fetch") > 0
    /\ FirstCall("fetch") < FirstCall("readFile")
    /\ ~response.arrived
    /\ remote = NullVersion
    /\ local = Known(<<"1", ".", "1">>)

(***************************************************************************)
(* Properties of overlapping calls (checked under SpecTwo)                 *)
(***************************************************************************)
\* C27: two calls of initializeProject against the same target directory,
\* overlapping in time or not, never have the same temp workspace path.
C27_TempWorkspaceOwnedByOne ==
    (/\ routine = "initializeProject"
     /\ parked.pc # "none"
     /\ tempPath # <<>>
     /\ parked.tempPath # <<>>) =>
        tempPath # parked.tempPath

(***************************************************************************)
(* Properties of copyDirectory (checked under SpecCopy)                    *)
(***************************************************************************)
\* the entries below the source directory
SourceEntries(f) == {q \in DOMAIN f : IsPrefix(CopySource, q) /\ q # CopySource}

\* the path in target that corresponds to the source path q
Counterpart(q) == Join(CopyTarget, SubSeq(q, Len(CopySource) + 1, Len(q)))

\* a call of the copy fails by itself: the source is no directory, or the
\* target holds a file where a directory is needed or a directory where a
\* file is needed
CopyObstacle(f) ==
    \/ ~IsDir(f, CopySource)
    \/ \E q \in SourceEntries(f) :
          IF IsDir(f, q) THEN ~MkdirOk(f, Counterpart(q))
          ELSE IsDir(f, Counterpart(q)) \/ ~MkdirOk(f, Parent(Counterpart(q)))

\* the source entries whose counterpart the call made or changed
CopyProcessed == {q \in SourceEntries(fs0) :
                     /\ Exists(fs, Counterpart(q))
                     /\ \/ ~Exists(fs0, Counterpart(q))
                        \/ fs[Counterpart(q)] # fs0[Counterpart(q)]}

\* C28: after copyDirectory(source, target) returns, every source file is
\* at the corresponding path of target with the source's content (a file
\* already there is overwritten), every source subdirectory exists in
\* target, and what has no counterpart in source is unchanged; a failure
\* of a readdir, mkdir or copy rejects the call, and the entries after the
\* failed call are not processed.
C28_CopyDirectoryMirrorsSource ==
    routine = "copyDirectory" =>
        /\ pc = "returned" =>
              /\ \A q \in SourceEntries(fs0) :
                    IF IsFile(fs0, q)
                    THEN /\ IsFile(fs, Counterpart(q))
                         /\ fs[Counterpart(q)].data = fs0[q].data
                    ELSE IsDir(fs, Counterpart(q))
              /\ \A p \in DOMAIN fs0 :
                    (\A q \in SourceEntries(fs0) : Counterpart(q) # p) =>
                        Exists(fs, p) /\ fs[p] = fs0[p]
              /\ faults = 0
              /\ ~CopyObstacle(fs0)
        /\ pc = "threw" =>
              /\ faults = 1 \/ CopyObstacle(fs0)
              /\ faults = 1 =>
                    \E b \in 0..(CopyCalls(fs0, CopySource, CopyTarget) - 1) :
                        /\ fs = copyDirectory(fs0, CopySource, CopyTarget, b).fs
                        /\ Cardinality(CopyProcessed) <= b
              /\ ~IsDir(fs0, CopySource) => fs = fs0

\* a copy that returned after overwriting sub/x.md beside a file it kept
C28_Witness ==
    /\ routine = "copyDirectory"
    /\ pc = "returned"
    /\ IsFile(fs0, Join(CopyTarget, <<"sub", "keep.md">>))
    /\ IsFile(fs0, Join(CopyTarget, <<"sub", "x.md">>))
    /\ IsFile(fs0, Join(CopySource, <<"sub", "in", "y.md">>))
    /\ fs[Join(CopyTarget, <<"sub", "x.md">>)] # fs0[Join(CopyTarget, <<"sub", "x.md">>)]

(***************************************************************************)
(* Properties of the .devflow sub-step and of the .gitignore merge         *)
(* (checked under Spec)                                                    *)
(***************************************************************************)
\* C29: once the .devflow sub-step has reported success, .devflow/agents,
\* .devflow/memory and .devflow/sessions are empty directories of the
\* target, and .devflow/project.yaml holds the template's project.yaml
\* when the template has one and is an empty file when it has none.
C29_DevflowStructure ==
    (routine = "initializeProject" /\ Has(out, DevflowDone[1])) =>
        /\ \A name \in {"agents", "memory", "sessions"} :
              /\ IsDir(fs, Append(devflowTarget, name))
              /\ Children(fs, Append(devflowTarget, name)) = {}
        /\ IsFile(fs, projectYamlTarget)
        /\ fs[projectYamlTarget].data =
              (IF IsFile(tmpl, Append(DevflowPath, "project.yaml"))
               THEN tmpl[Append(DevflowPath, "project.yaml")].data
               ELSE <<>>)

\* C30: when the target had a .gitignore before initializeProject ran,
\* then after the call has ended, normally or after a failed read, write
\* or copy of the merge step, the target still has a .gitignore and its
\* content begins with the content it had.
C30_ExistingIgnoreKept ==
    (/\ routine = "initializeProject"
     /\ pc \in {"returned", "threw", "exited"}
     /\ IsFile(fs0, GitignorePath)) =>
        /\ IsFile(fs, GitignorePath)
        /\ IsPrefix(fs0[GitignorePath].data, fs[GitignorePath].data)

====
